---------------------------- MODULE Spec2Model ----------------------------
(***************************************************************************)
(* A model of nostrMQ's core: the replay tracker (messageTracker.ts), the  *)
(* receive pipeline (receive.ts), the relay pool and the send pipeline     *)
(* (relayPool.ts, send.ts) and the proof-of-work engine (pow.ts,           *)
(* pow.worker.js).  Each subsystem has its own specification over its own  *)
(* variables; the other subsystems' variables stay at their initial value. *)
(***************************************************************************)
EXTENDS Integers, Sequences, FiniteSets, TLC

VARIABLES
  \* ---- replay tracker (MessageTracker) and its cache directory ----
  now,                \* Math.floor(Date.now() / 1000)
  lastProcessed,      \* MessageTracker.lastProcessed
  recentEvents,       \* MessageTracker.recentEvents, a Set in insertion order
  persistenceEnabled, \* MessageTracker.persistenceEnabled
  initialized,        \* initialize() has completed on this tracker
  tsFile,             \* timestamp.json: its lastProcessed, 0 when absent,
                      \* -1 when it does not parse or holds no positive number
  snapFile,           \* snapshot.json: its eventIds, << >> when absent
  calls,              \* markProcessed calls suspended at an await
  marks,              \* history: per id, the newest timestamp a completed
                      \* markProcessed call of this tracker carried (-1: none)
  prevMarks,          \* history: marks of the tracker before the last restart
  trackerLog,         \* history: flags of this and the previous lifetime
  \* ---- receive pipeline (receive, SubscriptionHandleImpl) ----
  recvPc,             \* receive(): "connecting", "subscribed" or "failed"
  handleClosed,       \* SubscriptionHandleImpl.closed
  messageQueue,       \* SubscriptionHandleImpl.messageQueue
  messageResolvers,   \* SubscriptionHandleImpl.messageResolvers: the
                      \* consumers whose resolver is pending, in order
  consumerPc,         \* per stream consumer: "idle", "waiting" or "ended"
  yielded,            \* history: what the stream yielded
  handlers,           \* runs of the pool's "event" listener that are suspended
  delivered,          \* history: the onMessage invocations, in order
  finished,           \* history: events whose onMessage returned or threw
  arrivals,           \* history: how many events the pool emitted, and
                      \* the (subId, event) pairs seen among them
  closeLog,           \* history: close() calls and what they did to the pool
  \* ---- send() and the RelayPool it creates.  Times are in seconds; a
  \* ---- timer is the time left until it fires, -1 when it is not set
  timeoutMs,          \* send(): opts.timeoutMs || 2000
  conn,               \* RelayPool.connections: state, ws, reconnectAttempts
  sock,               \* the WebSocket objects created per relay, in order
  rtimer,             \* RelayPool.reconnectTimeouts, per relay
  connectResult,      \* the promise of RelayPool.connect()
  sendPc,             \* send(): the await it is suspended at
  sendOutcome,        \* send(): "id" (returns), "error" (throws) or "none"
  sendTimer,          \* the timer of the withTimeout send() is waiting under
  pub,                \* publish(): per relay "waiting" or the result set
  okDeadline,         \* publish(): the timer of the wait for OK, per relay
  discWait,           \* disconnect(): sockets whose "close" it waits for
  window,             \* history: time left of timeoutMs since publish()
                      \* sent the EVENT frames
  okFrames,           \* history: the OK frames received for the event, and
                      \* whether each came within timeoutMs of the EVENT
  openedAfterDone,    \* history: a socket was created after disconnect()
  subscriptions,      \* RelayPool.subscriptions: the entry of receive()'s
                      \* subscription id (has: present; relays: its URL set)
  disconnecting,      \* the disconnect() called by handle.close() is waiting
  subLog,             \* history of the subscription's REQ and CLOSE frames
  targets,            \* send(): opts.relays || config.relays
  okListeners,        \* the relays whose "ok" listener, registered by
                      \* publish(), is still on the pool
  frameLog,           \* history: the last inbound frame the pool's "message"
                      \* handler ran for and what it emitted, and the
                      \* sockets on which a frame was dropped
  \* ---- proof-of-work mining (mineEventPow and its workers) ----
  powPc,              \* mineEventPow: "idle", "mining" (awaits the workers), "done"
  powEvt,             \* the tags of the template passed to mineEventPow
  powBits,            \* bits
  powThreads,         \* threads
  workers,            \* per worker thread: its state and its nonce
  powResolved,        \* mineMultiThreaded: resolved
  powOutcome,         \* mineEventPow: "returned", "threw" or "none"
  powResult,           \* the tags of the template returned
  powTimer,           \* mineMultiThreaded's 5 minute timer: "none", "armed",
                      \* "cleared" or "fired"
  \* ---- calls checked one at a time ----
  sendArgs,           \* send(opts): the kinds of opts.payload, opts.target and
                      \* opts.response
  validation,         \* what send's validation did: "none" (not called), "ok",
                      \* or the error thrown
  query,              \* the last hasProcessed(id, ts) call and its answer
  powOpt,             \* send(opts): opts.pow
  config,             \* loadConfig(): powDifficulty and powThreads
  signedEvent         \* send: the tags of the event it signed, << >> before

trackerVars == <<now, lastProcessed, recentEvents, persistenceEnabled,
                 initialized, tsFile, snapFile, calls, marks, prevMarks,
                 trackerLog>>

recvVars == <<recvPc, handleClosed, messageQueue, messageResolvers,
              consumerPc, yielded, handlers, delivered, finished, arrivals,
              closeLog>>

poolVars == <<timeoutMs, conn, sock, rtimer, connectResult, sendPc,
              sendOutcome, sendTimer, pub, okDeadline, discWait, window,
              okFrames, openedAfterDone, subscriptions, disconnecting,
              subLog, targets, okListeners>>

sendVars == <<poolVars, frameLog>>

powVars == <<powPc, powEvt, powBits, powThreads, workers, powResolved,
             powOutcome, powResult, powTimer>>

callVars == <<sendArgs, validation, query, powOpt, config, signedEvent>>

vars == <<trackerVars, recvVars, sendVars, powVars, callVars>>

---------------------------------------------------------------------------
(* Generic helpers *)

Range(s) == {s[i] : i \in 1..Len(s)}

Max(a, b) == IF a >= b THEN a ELSE b

Min(a, b) == IF a <= b THEN a ELSE b

\* Array.prototype.slice(-n) for n > 0: the last n elements
\* Array.slice(0, n): the first n elements
SliceFirst(s, n) == IF Len(s) <= n THEN s ELSE SubSeq(s, 1, n)

\* Array.slice(-n) for n >= 1: the last n elements
SliceLast(s, n) == IF Len(s) <= n THEN s ELSE SubSeq(s, Len(s) - n + 1, Len(s))

---------------------------------------------------------------------------
(* Replay tracker: configuration and bounds *)

\* TrackingConfig.oldestMqSeconds, scaled down
OldestMqSeconds == 2

\* TrackingConfig.trackLimit, scaled down
TrackLimit == 2

\* the clock when the first tracker is constructed
StartNow == 5

\* the clock stops advancing here
MaxNow == 10

\* markProcessed calls started, over all tracker lifetimes
MaxMarks == 3

\* markProcessed calls suspended at once
MaxCalls == 2

\* tracker restarts
MaxRestarts == 1

EventIds == {"a", "b", "c"}

CallIds == 1..MaxCalls

NoCall == [pc |-> "idle", id |-> "a", ts |-> 0, toKeep |-> << >>]

\* timestamps an event may carry: older than the watermark w, equal to it, newer
Timestamps(w) == (w - 1)..(w + 1)

\* seconds that may pass before the clock is read again: none, or more than
\* twice the lookback
Elapsed == {d \in {0, 2 * OldestMqSeconds + 1} : now + d <= MaxNow}

NoMarks == [i \in EventIds |-> -1]

\* cleared: clear() was called; writeFailed: a cache write failed; started,
\* completed: markProcessed calls; lastTs: the timestamp of the last completed
\* call; increasing: every completed call carried a newer timestamp than the
\* one before and one inside the lookback window; windowStart: the watermark
\* after initialize(); overlapped: two calls were in flight at once;
\* prevClean: the previous tracker persisted, without any of the above failing
NewLog == [cleared |-> FALSE, writeFailed |-> FALSE, started |-> 0,
           completed |-> 0, lastTs |-> -1, increasing |-> TRUE,
           windowStart |-> 0, overlapped |-> FALSE, restarts |-> 0,
           prevClean |-> FALSE, prevCount |-> 0, dirFailed |-> FALSE]

\* the history after markProcessed(id, ts) has completed
Completed(log, id, ts) ==
  [log EXCEPT !.completed = @ + 1,
              !.lastTs = ts,
              !.increasing = @ /\ ts > log.lastTs /\ ts > log.windowStart]

---------------------------------------------------------------------------
(* Replay tracker: operations *)

\* a test that also treats a timestamp equal to the watermark as old
HasProcessedAtWatermark(id, ts) ==
  ts <= lastProcessed \/ id \in Range(recentEvents)

\* MessageTracker.hasProcessed
HasProcessed(id, ts) ==
  IF ts < lastProcessed THEN TRUE
  ELSE IF id \in Range(recentEvents) THEN TRUE
  ELSE FALSE

\* an add that moves an id already present to the newest position
SetAddRefresh(s, id) == Append(SelectSeq(s, LAMBDA x : x # id), id)

\* Set.add: an id already in the set keeps its position
SetAdd(s, id) == IF id \in Range(s) THEN s ELSE Append(s, id)

\* markProcessed from "this.recentEvents.add(eventId)" to its end or to the
\* await of saveSnapshotAsync; c is the call's slot (0: not suspended before)
MarkAddAndTrim(c, id, ts, enabled, log) ==
  LET added == SetAdd(recentEvents, id)
      over == Len(added) > TrackLimit
      toKeep == SliceLast(added, TrackLimit)
  IN /\ recentEvents' = IF over THEN toKeep ELSE added
     /\ IF over /\ enabled
        THEN \E k \in CallIds :
               /\ IF c = 0 THEN calls[k].pc = "idle" ELSE k = c
               /\ calls' = [calls EXCEPT ![k] =
                    [pc |-> "saveSnap", id |-> id, ts |-> ts, toKeep |-> toKeep]]
               /\ marks' = marks
               /\ trackerLog' = log
        ELSE /\ calls' = IF c = 0 THEN calls ELSE [calls EXCEPT ![c] = NoCall]
             /\ marks' = [marks EXCEPT ![id] = Max(@, ts)]
             /\ trackerLog' = Completed(log, id, ts)

\* markProcessed with "timestamp !== this.lastProcessed" as its test
NotAtWatermark(ts) == ts # lastProcessed

\* markProcessed: the test "timestamp > this.lastProcessed"
AdvancesWatermark(ts) == ts > lastProcessed

\* markProcessed(eventId, timestamp) up to its first await
MarkProcessed(id, ts) ==
  /\ initialized
  /\ trackerLog.started < MaxMarks
  /\ \E k \in CallIds : calls[k].pc = "idle"
  /\ LET log == [trackerLog EXCEPT
                   !.started = @ + 1,
                   !.overlapped = @ \/ \E k \in CallIds : calls[k].pc # "idle"]
     IN IF AdvancesWatermark(ts)
        THEN /\ lastProcessed' = ts
             /\ IF persistenceEnabled
                THEN /\ \E k \in CallIds :
                          /\ calls[k].pc = "idle"
                          /\ calls' = [calls EXCEPT ![k] =
                               [pc |-> "saveTs", id |-> id, ts |-> ts,
                                toKeep |-> << >>]]
                     /\ trackerLog' = log
                     /\ UNCHANGED <<recentEvents, marks>>
                ELSE MarkAddAndTrim(0, id, ts, persistenceEnabled, log)
        ELSE /\ lastProcessed' = lastProcessed
             /\ MarkAddAndTrim(0, id, ts, persistenceEnabled, log)
  /\ UNCHANGED <<now, persistenceEnabled, initialized, tsFile, snapFile, prevMarks>>

\* saveTimestampAsync / utils.saveTimestamp settles (ok: the write succeeded),
\* and markProcessed resumes
SaveTimestampDone(c, ok) ==
  /\ calls[c].pc = "saveTs"
  /\ tsFile' = IF ok THEN calls[c].ts ELSE tsFile
  /\ MarkAddAndTrim(c, calls[c].id, calls[c].ts, persistenceEnabled,
                    [trackerLog EXCEPT !.writeFailed = @ \/ ~ok])
  /\ UNCHANGED <<now, lastProcessed, persistenceEnabled, initialized, snapFile,
                 prevMarks>>

\* a snapshot that leaves out the newest id
SnapshotWithoutNewest(eventIds) == SubSeq(eventIds, 1, Len(eventIds) - 1)

\* utils.saveSnapshot: the eventIds written, a copy of its argument; count is
\* their number
SnapshotWritten(eventIds) == eventIds

\* saveSnapshotAsync / utils.saveSnapshot settles, and markProcessed returns
SaveSnapshotDone(c, ok) ==
  /\ calls[c].pc = "saveSnap"
  /\ snapFile' = IF ok THEN SnapshotWritten(calls[c].toKeep) ELSE snapFile
  /\ trackerLog' = Completed([trackerLog EXCEPT !.writeFailed = @ \/ ~ok],
                             calls[c].id, calls[c].ts)
  /\ calls' = [calls EXCEPT ![c] = NoCall]
  /\ marks' = [marks EXCEPT ![calls[c].id] = Max(@, calls[c].ts)]
  /\ UNCHANGED <<now, lastProcessed, recentEvents, persistenceEnabled,
                 initialized, tsFile, prevMarks>>

\* a load that returns whatever the file holds
LoadTimestampUnchecked == tsFile

\* utils.loadTimestamp: null (0 here) unless lastProcessed is a number > 0
LoadTimestamp == IF tsFile > 0 THEN tsFile ELSE 0

\* utils.loadSnapshot
LoadSnapshot == snapFile

\* MessageTracker.initialize; dirOk: ensureCacheDir could create the directory;
\* dt: the time since the clock was last read
\* initialize() going on as if the cache directory were always there
CacheDirAssumed(dirOk) == TRUE

\* utils.ensureCacheDir: true iff fs.mkdir succeeded (dirOk)
EnsureCacheDir(dirOk) == dirOk

\* a floor that accepts any cached timestamp
NoCacheFloor(t) == 0

\* the oldest cached timestamp initialize() accepts: twice the lookback
CacheFloor(t) == t - OldestMqSeconds * 2

Initialize(dirOk, dt) ==
  /\ ~initialized
  /\ initialized' = TRUE
  /\ now' = now + dt
  /\ IF ~persistenceEnabled
     THEN UNCHANGED <<lastProcessed, recentEvents, persistenceEnabled>>
     ELSE IF ~EnsureCacheDir(dirOk)
     THEN /\ persistenceEnabled' = FALSE
          /\ UNCHANGED <<lastProcessed, recentEvents>>
     ELSE /\ lastProcessed' =
               IF LoadTimestamp # 0
               THEN Max(LoadTimestamp, CacheFloor(now'))
               ELSE lastProcessed
          /\ recentEvents' =
               IF Len(LoadSnapshot) > 0
               THEN SliceLast(LoadSnapshot, TrackLimit)
               ELSE recentEvents
          /\ UNCHANGED persistenceEnabled
  /\ trackerLog' = [trackerLog EXCEPT
        !.windowStart = lastProcessed',
        !.dirFailed = persistenceEnabled /\ ~dirOk]
  /\ UNCHANGED <<tsFile, snapFile, calls, marks, prevMarks>>

\* MessageTracker.clear
Clear(dt) ==
  /\ initialized
  /\ ~trackerLog.cleared
  /\ now' = now + dt
  /\ recentEvents' = << >>
  /\ lastProcessed' = now' - OldestMqSeconds
  /\ trackerLog' = [trackerLog EXCEPT
        !.cleared = TRUE,
        !.overlapped = @ \/ \E k \in CallIds : calls[k].pc # "idle"]
  /\ UNCHANGED <<persistenceEnabled, initialized, tsFile, snapFile, calls,
                 marks, prevMarks>>

\* the process ends and a new MessageTracker is constructed on the same
\* cacheDir (the constructor); the files stay as they are
Restart(enable, dt) ==
  /\ initialized
  /\ now' = now + dt
  /\ trackerLog.restarts < MaxRestarts
  /\ \A k \in CallIds : calls[k].pc = "idle"
  /\ persistenceEnabled' = enable
  /\ recentEvents' = << >>
  /\ lastProcessed' = now' - OldestMqSeconds
  /\ initialized' = FALSE
  /\ prevMarks' = marks
  /\ marks' = NoMarks
  /\ trackerLog' = [NewLog EXCEPT
        !.restarts = trackerLog.restarts + 1,
        !.started = trackerLog.started,
        !.prevCount = trackerLog.completed,
        !.prevClean = /\ persistenceEnabled
                      /\ ~trackerLog.writeFailed
                      /\ ~trackerLog.cleared
                      /\ ~trackerLog.overlapped
                      /\ trackerLog.increasing]
  /\ UNCHANGED <<tsFile, snapFile, calls>>

\* a caller asks hasProcessed(id, ts) and keeps the answer
HasProcessedCall(id, ts) ==
  /\ query' = [asked |-> TRUE, id |-> id, ts |-> ts,
               answer |-> HasProcessed(id, ts)]
  /\ UNCHANGED <<trackerVars, sendArgs, validation, powOpt, config, signedEvent>>

\* new MessageTracker(config) on an empty cache directory
TrackerInit ==
  /\ now = StartNow
  /\ lastProcessed = StartNow - OldestMqSeconds
  /\ recentEvents = << >>
  /\ persistenceEnabled \in BOOLEAN
  /\ initialized = FALSE
  /\ tsFile = 0
  /\ snapFile = << >>
  /\ calls = [k \in CallIds |-> NoCall]
  /\ marks = NoMarks
  /\ prevMarks = NoMarks
  /\ trackerLog = NewLog

---------------------------------------------------------------------------
(* Receive pipeline: events and bounds *)

\* events the pool emits to the listener
MaxArrivals == 3

\* runs of the listener suspended at once
MaxHandlers == 2

HandlerIds == 1..MaxHandlers

\* consumers iterating the handle's stream
MaxConsumers == 2

ConsumerIds == 1..MaxConsumers

\* close() calls made by the user
MaxCloses == 2

\* history: the close() calls, the relayPool.unsubscribe calls, CLOSE
\* broadcasts and relayPool.disconnect calls they made, and how many pending
\* resolvers the closing call completed
NewCloseLog == [calls |-> 0, unsubscribes |-> 0, closeFrames |-> 0,
                disconnects |-> 0, released |-> 0]

\* The events a relay may send.  good1 and good2 are well-formed messages to
\* the receiver; each of the others fails one check of processEvent.
RecvEvents == {"good1", "good2", "otherKind", "notForUs", "undecryptable",
               "notJson", "noFields", "wrongTarget", "badResponse"}

SubIds == {"ours", "other"}

\* the id receive generated for its handle
SubscriptionId == "ours"

\* event.id
EvId(e) == IF e = "good1" THEN "a" ELSE IF e = "good2" THEN "b" ELSE "c"

\* event.created_at: the events are new when the receiver starts
EvCreatedAt(e) == IF e = "good2" THEN StartNow + 1 ELSE StartNow

\* event.kind
EvKind(e) == IF e = "otherKind" THEN 1 ELSE 30072

\* some p tag of the event carries the receiver's pubkey
EvTagsUs(e) == e # "notForUs"

\* nip04.decrypt succeeds on event.content
EvDecrypts(e) == e # "undecryptable"

\* the decrypted content: "envelope" is a JSON object with target, response
\* and payload; the others lack one quality
EvContent(e) ==
  CASE e = "notJson" -> "notJson"
    [] e = "noFields" -> "noFields"
    [] e = "wrongTarget" -> "wrongTarget"
    [] e = "badResponse" -> "badResponse"
    [] OTHER -> "envelope"

NoHandler == [pc |-> "idle", sub |-> "ours", ev |-> "good1"]

---------------------------------------------------------------------------
(* Receive pipeline: operations *)

\* processEvent before its await: the kind and the p tags
StructureValid(e) ==
  /\ EvKind(e) = 30072
  /\ EvTagsUs(e)

\* processEvent after nip04.decrypt, without the comparison of the target
\* with the receiver's pubkey
PayloadValidNoTarget(e) ==
  /\ EvDecrypts(e)
  /\ EvContent(e) # "notJson"
  /\ EvContent(e) # "noFields"
  /\ EvContent(e) # "badResponse"

\* processEvent after nip04.decrypt: the JSON parse, the required fields, the
\* target and the pubkey formats
PayloadValid(e) ==
  /\ EvDecrypts(e)
  /\ EvContent(e) # "notJson"
  /\ EvContent(e) # "noFields"
  /\ EvContent(e) # "wrongTarget"
  /\ EvContent(e) # "badResponse"

\* relayPool.connect() resolved: receive subscribes
RecvSubscribed ==
  /\ recvPc = "connecting"
  /\ recvPc' = "subscribed"
  /\ UNCHANGED <<handleClosed, messageQueue, messageResolvers, consumerPc,
                 yielded, handlers, delivered, finished, arrivals, closeLog>>

\* close() resolving only the resolver that has waited longest
OnlyFirstResolved(c) ==
  Len(messageResolvers) > 0 /\ c = Head(messageResolvers)

\* SubscriptionHandleImpl.close: "for (const resolver of
\* this.messageResolvers) resolver({ done: true, ... })" reaches consumer c
ResolvedByClose(c) == c \in Range(messageResolvers)

\* close() without its test of this.closed
GuardRemoved == FALSE

\* SubscriptionHandleImpl.close: "if (this.closed) return"
AlreadyClosed == handleClosed

\* SubscriptionHandleImpl.close, called by the user or by receive: the
\* unsubscribe sends CLOSE frames when the pool has the subscription, and
\* each consumer whose resolver is pending gets { done: true }
Close ==
  IF AlreadyClosed
  THEN /\ closeLog' = [closeLog EXCEPT !.calls = @ + 1]
       /\ UNCHANGED <<handleClosed, messageResolvers, consumerPc>>
  ELSE /\ handleClosed' = TRUE
       /\ closeLog' = [closeLog EXCEPT
             !.calls = @ + 1,
             !.unsubscribes = @ + 1,
             !.closeFrames = @ + IF recvPc = "subscribed" THEN 1 ELSE 0,
             !.disconnects = @ + 1,
             !.released = Len(messageResolvers)]
       /\ consumerPc' = [c \in ConsumerIds |->
             IF ResolvedByClose(c) THEN "ended" ELSE consumerPc[c]]
       /\ messageResolvers' = << >>

\* the user calls handle.close()
HandleClose ==
  /\ closeLog.calls < MaxCloses
  /\ Close
  /\ UNCHANGED <<recvPc, messageQueue, yielded, handlers, delivered, finished,
                 arrivals>>

\* relayPool.connect() rejected: receive closes the handle
RecvConnectFailed ==
  /\ recvPc = "connecting"
  /\ recvPc' = "failed"
  /\ Close
  /\ UNCHANGED <<messageQueue, yielded, handlers, delivered, finished, arrivals>>

\* the pool emits "event" (url, subId, event): the listener runs up to the
\* await of nip04.decrypt, or to its end when the event is dropped before
EventArrives(sub, e) ==
  /\ recvPc = "subscribed"
  /\ arrivals.count < MaxArrivals
  /\ arrivals' = [count |-> arrivals.count + 1,
                  seen |-> arrivals.seen \cup {[sub |-> sub, ev |-> e]}]
  /\ IF sub = SubscriptionId /\ StructureValid(e)
     THEN \E h \in HandlerIds :
            /\ handlers[h].pc = "idle"
            /\ handlers' = [handlers EXCEPT ![h] = [pc |-> "decrypt", sub |-> sub, ev |-> e]]
     ELSE handlers' = handlers
  /\ UNCHANGED <<recvPc, handleClosed, messageQueue, messageResolvers,
                 consumerPc, yielded, delivered, finished, closeLog>>

\* nip04.decrypt settles: processEvent finishes, and onMessage is invoked
\* when it returned message data
DecryptDone(h) ==
  /\ handlers[h].pc = "decrypt"
  /\ IF PayloadValid(handlers[h].ev)
     THEN /\ delivered' = Append(delivered, [sub |-> handlers[h].sub, ev |-> handlers[h].ev])
          /\ handlers' = [handlers EXCEPT ![h].pc = "callback"]
     ELSE /\ delivered' = delivered
          /\ handlers' = [handlers EXCEPT ![h] = NoHandler]
  /\ UNCHANGED <<recvPc, handleClosed, messageQueue, messageResolvers,
                 consumerPc, yielded, finished, arrivals, closeLog>>

\* SubscriptionHandleImpl.addMessage
AddMessage(e) ==
  IF handleClosed
  THEN UNCHANGED <<messageQueue, messageResolvers, consumerPc, yielded>>
  ELSE IF Len(messageResolvers) > 0
  THEN /\ messageResolvers' = Tail(messageResolvers)
       /\ yielded' = Append(yielded, e)
       /\ consumerPc' = [consumerPc EXCEPT ![Head(messageResolvers)] = "idle"]
       /\ UNCHANGED messageQueue
  ELSE /\ messageQueue' = Append(messageQueue, e)
       /\ UNCHANGED <<messageResolvers, consumerPc, yielded>>

\* onMessage returns or throws (threw); the listener logs the error, adds the
\* message to the stream and ends
CallbackDone(h, threw) ==
  /\ handlers[h].pc = "callback"
  /\ finished' = finished \cup {handlers[h].ev}
  /\ handlers' = [handlers EXCEPT ![h] = NoHandler]
  /\ AddMessage(handlers[h].ev)
  /\ UNCHANGED <<recvPc, handleClosed, delivered, arrivals, closeLog>>

\* a stream consumer asks for the next message ([Symbol.asyncIterator])
ConsumerNext(c) ==
  /\ consumerPc[c] = "idle"
  /\ IF handleClosed
     THEN /\ consumerPc' = [consumerPc EXCEPT ![c] = "ended"]
          /\ UNCHANGED <<messageQueue, messageResolvers, yielded>>
     ELSE IF Len(messageQueue) > 0
     THEN /\ yielded' = Append(yielded, Head(messageQueue))
          /\ messageQueue' = Tail(messageQueue)
          /\ UNCHANGED <<consumerPc, messageResolvers>>
     ELSE /\ messageResolvers' = Append(messageResolvers, c)
          /\ consumerPc' = [consumerPc EXCEPT ![c] = "waiting"]
          /\ UNCHANGED <<messageQueue, yielded>>
  /\ UNCHANGED <<recvPc, handleClosed, handlers, delivered, finished, arrivals,
                 closeLog>>

\* receive(opts) has returned its handle; connect() is pending
RecvInit ==
  /\ recvPc = "connecting"
  /\ handleClosed = FALSE
  /\ messageQueue = << >>
  /\ messageResolvers = << >>
  /\ consumerPc = [c \in ConsumerIds |-> "idle"]
  /\ yielded = << >>
  /\ handlers = [h \in HandlerIds |-> NoHandler]
  /\ delivered = << >>
  /\ finished = {}
  /\ arrivals = [count |-> 0, seen |-> {}]
  /\ closeLog = NewCloseLog

---------------------------------------------------------------------------
(* send() and its RelayPool: constants, bounds and state *)

\* RelayPool.maxReconnectAttempts
MaxReconnectAttempts == 10

\* RelayPool.baseReconnectDelay, in seconds
BaseReconnectDelay == 1

\* RelayPool.maxReconnectDelay, in seconds
MaxReconnectDelay == 30

\* connectToRelay: the timeout of the wait for "open", in seconds
ConnectOpenTimeout == 10

\* publish: the timeout of the wait for OK, in seconds
PublishOkTimeout == 5

\* send: the default of opts.timeoutMs, in seconds
DefaultSendTimeout == 2

\* the values tried for opts.payload: JSON values, among them the falsy ones,
\* a missing payload, and an object JSON.stringify throws on
PayloadKinds == {"object", "text", "number", "true", "zero", "false", "null",
                 "empty", "undefined", "cyclic"}

\* the values tried for opts.target and opts.response: 64 hex characters,
\* another non-empty string, the empty string, not given
PubkeyKinds == {"valid", "invalid", "empty", "undefined"}

SendArgs == [payload : PayloadKinds, target : PubkeyKinds,
             response : PubkeyKinds]

\* JavaScript's truthiness: what !v and v || d test
Truthy(v) == v \notin {"zero", "false", "null", "empty", "undefined"}

\* isValidPubkey: a string of 64 hex characters
isValidPubkey(k) == k = "valid"

\* loadConfig().pubkey, which loadConfig derives from the private key
ConfigPubkey == "valid"

\* safeJsonStringify returns exactly when JSON.stringify does not throw
Serializes(v) == v # "cyclic"

\* send: if (!opts.payload) throw
PayloadPresent(v) == Truthy(v)

\* send, from its entry to the encrypted content: "ok" or the error thrown
SendValidation(a) ==
  LET responsePubkey == IF Truthy(a.response) THEN a.response ELSE ConfigPubkey
  IN IF ~PayloadPresent(a.payload) THEN "Payload is required"
     ELSE IF ~Truthy(a.target) THEN "Target pubkey is required"
     ELSE IF ~isValidPubkey(a.target) THEN "Invalid target pubkey format"
     ELSE IF ~isValidPubkey(responsePubkey) THEN "Invalid response pubkey format"
     ELSE IF ~Serializes(a.payload) THEN "Failed to encrypt payload"
     ELSE "ok"

\* config.relays
Relays == {"r1", "r2"}

\* the relay URLs a caller can name: those of config.relays and one more
Urls == Relays \cup {"r3"}

\* the values of opts.relays tried; Relays stands for "not given"
SendTargets == {Relays, {"r1", "r3"}}

\* the values of opts.timeoutMs tried, in seconds (0: not given)
SendTimeouts == {0, 7}

\* WebSocket objects created per relay
MaxSocketsPerRelay == 2

\* WebSocket objects created in all
MaxSockets == 3

SocketIds == 1..MaxSocketsPerRelay

\* sub: the last frame of the subscription sent on the socket ("req",
\* "close") or "none"
NoSocket == [st |-> "none", wait |-> "none", openDeadline |-> -1,
             frame |-> "none", sub |-> "none"]

\* no entry in RelayPool.subscriptions
NoSubscription == [has |-> FALSE, relays |-> {}, filters |-> << >>]

\* a filter without a since key
NoSince == -1

\* receive: the filter it subscribes with, for the pubkey of its config
ReceiveFilter == [kinds |-> {30072}, p |-> {ConfigPubkey}, since |-> NoSince]

\* history: a REQ was sent after close(); the sockets holding the subscription
\* that close() left open without a CLOSE; the sockets that opened while the
\* subscription was active for their relay and got no REQ
NewSubLog == [reqAfterClose |-> FALSE, unclosed |-> {}, unsent |-> {}]

NoConnection == [state |-> "disconnected", ws |-> 0, attempts |-> 0]

\* no inbound frame yet
NoFrames == [kind |-> "none", emitted |-> << >>, afterDrop |-> FALSE,
             dropped |-> {}]

\* the state of send() and its pool as one value, for the operations below
SendState ==
  [timeoutMs |-> timeoutMs, conn |-> conn, sock |-> sock,
   rtimer |-> rtimer, connectResult |-> connectResult, sendPc |-> sendPc,
   sendOutcome |-> sendOutcome, sendTimer |-> sendTimer, pub |-> pub,
   okDeadline |-> okDeadline, discWait |-> discWait,
   window |-> window, okFrames |-> okFrames,
   openedAfterDone |-> openedAfterDone, subscriptions |-> subscriptions,
   disconnecting |-> disconnecting, subLog |-> subLog,
   targets |-> targets, okListeners |-> okListeners,
   recvPc |-> recvPc, handleClosed |-> handleClosed, frameLog |-> frameLog]

\* the next state is S
Becomes(S) ==
  /\ timeoutMs' = S.timeoutMs
  /\ conn' = S.conn
  /\ sock' = S.sock
  /\ rtimer' = S.rtimer
  /\ connectResult' = S.connectResult
  /\ sendPc' = S.sendPc
  /\ sendOutcome' = S.sendOutcome
  /\ sendTimer' = S.sendTimer
  /\ pub' = S.pub
  /\ okDeadline' = S.okDeadline
  /\ discWait' = S.discWait
  /\ window' = S.window
  /\ okFrames' = S.okFrames
  /\ openedAfterDone' = S.openedAfterDone
  /\ subscriptions' = S.subscriptions
  /\ disconnecting' = S.disconnecting
  /\ subLog' = S.subLog
  /\ targets' = S.targets
  /\ okListeners' = S.okListeners
  /\ recvPc' = S.recvPc
  /\ handleClosed' = S.handleClosed
  /\ frameLog' = S.frameLog

\* how many WebSocket objects were created for relay r
SocketCount(S, r) == Cardinality({g \in SocketIds : S.sock[r][g].st # "none"})

---------------------------------------------------------------------------
(* RelayPool and send(): the code run by each callback, as functions of the
   state.  A callback runs with the promise continuations it triggers. *)

\* RelayPool.disconnect, after its await: clears the subscriptions and
\* resets the connections; send's finally block ends
DisconnectDone(S) ==
  [S EXCEPT !.conn = [r \in Relays |-> NoConnection],
            !.subscriptions = NoSubscription,
            !.disconnecting = FALSE,
            !.sendPc = IF S.sendPc = "disconnect" THEN "done" ELSE @]

\* RelayPool.disconnect, up to its await: clears the reconnect timers, closes
\* every connection's socket and waits for the "close" events
PoolDisconnect(S) ==
  LET closing == {r \in Relays : S.conn[r].ws # 0}
      T == [S EXCEPT
              !.rtimer = [r \in Relays |-> -1],
              !.sock = [r \in Relays |-> [g \in SocketIds |->
                          IF r \in closing /\ g = S.conn[r].ws
                             /\ S.sock[r][g].st \in {"connecting", "open"}
                          THEN [S.sock[r][g] EXCEPT !.st = "closing"]
                          ELSE S.sock[r][g]]],
              !.discWait = {<<r, S.conn[r].ws>> : r \in closing}]
  IN IF closing = {} THEN DisconnectDone(T) ELSE T

\* RelayPool.disconnect called from send's finally block
Disconnect(S) ==
  PoolDisconnect([S EXCEPT !.sendTimer = -1, !.sendPc = "disconnect"])

\* the socket a frame for relay r is written to (0: none): the connection is
\* "connected" and has a ws
WireOf(S, r) ==
  IF S.conn[r].state = "connected" /\ S.conn[r].ws # 0
  THEN S.conn[r].ws ELSE 0

\* RelayPool.sendSubscriptionToRelay
SendSubscriptionToRelay(S, r) ==
  LET g == WireOf(S, r)
  IN IF g = 0 \/ S.sock[r][g].st # "open" THEN S
     ELSE [S EXCEPT !.sock[r][g].sub = "req",
                    !.subLog.reqAfterClose = @ \/ S.handleClosed]

\* RelayPool.resubscribeToRelay, called by the "open" handler of socket g
ResubscribeToRelay(S, r, g) ==
  IF S.subscriptions.has /\ r \in S.subscriptions.relays
  THEN LET T == SendSubscriptionToRelay(S, r)
       IN IF T.sock[r][g].sub = "req" THEN T
          ELSE [T EXCEPT !.subLog.unsent = @ \cup {<<r, g>>}]
  ELSE S

\* RelayPool.subscribe(subscriptionId, filters, relays), called by receive
\* when connect() has resolved: the relays are applied one after the other
Subscribe(S) ==
  LET S0 == [S EXCEPT !.subscriptions = [has |-> TRUE, relays |-> Relays,
                                         filters |-> <<ReceiveFilter>>]]
  IN SendSubscriptionToRelay(SendSubscriptionToRelay(S0, "r1"), "r2")

\* an unsubscribe that sends no frame
NoCloseSent(S, r) == S

\* RelayPool.unsubscribe: the CLOSE frame for relay r
SendCloseToRelay(S, r) ==
  LET g == WireOf(S, r)
  IN IF g = 0 \/ S.sock[r][g].st # "open" THEN S
     ELSE [S EXCEPT !.sock[r][g].sub = "close"]

\* RelayPool.unsubscribe(subscriptionId, targetRelays); all: no targetRelays
Unsubscribe(S, all, urls) ==
  IF ~S.subscriptions.has THEN S
  ELSE LET relays == IF all THEN S.subscriptions.relays ELSE urls
           S1 == IF "r1" \in relays THEN SendCloseToRelay(S, "r1") ELSE S
           S2 == IF "r2" \in relays THEN SendCloseToRelay(S1, "r2") ELSE S1
           rest == S.subscriptions.relays \ relays
       IN [S2 EXCEPT !.subscriptions =
             IF all \/ rest = {} THEN NoSubscription
             ELSE [S.subscriptions EXCEPT !.relays = rest]]

\* the sockets on which the relay holds the subscription: a REQ was the last
\* frame for it and the socket is open
Subscribed(S) ==
  {<<r, g>> \in Relays \X SocketIds :
     S.sock[r][g].sub = "req" /\ S.sock[r][g].st = "open"}

\* SubscriptionHandleImpl.close with the pool it calls: unsubscribe, then
\* disconnect without awaiting it
CloseHandle(S) ==
  IF S.handleClosed THEN S
  ELSE LET S1 == Unsubscribe([S EXCEPT !.handleClosed = TRUE], TRUE, {})
           S2 == PoolDisconnect([S1 EXCEPT !.disconnecting = TRUE])
       IN [S2 EXCEPT !.subLog.unclosed = Subscribed(S2)]

\* send: the code after the publish results are known, or after a rejection
SendSettle(S, ok) ==
  Disconnect([S EXCEPT !.sendOutcome = IF ok THEN "id" ELSE "error"])

\* publish's Promise.allSettled resolves when no relay is waited for; send
\* then looks for an accepted result
PublishSettled(S) ==
  IF S.sendPc = "publish" /\ \A u \in Urls : S.pub[u] # "waiting"
  THEN SendSettle(S, \E u \in Urls : S.pub[u] = "true")
  ELSE S

\* RelayPool.publish(signedEvent, relays) up to its await, called by send
\* after connect(): a URL without a connected connection gets false, the
\* others are sent the EVENT and an "ok" listener is registered for each
Publish(S) ==
  LET live == {r \in Relays \cap S.targets :
                 S.conn[r].state = "connected" /\ S.conn[r].ws # 0}
      T == [S EXCEPT
              !.pub = [u \in Urls |->
                         IF u \notin S.targets THEN "none"
                         ELSE IF u \in live THEN "waiting" ELSE "false"],
              !.okDeadline = [r \in Relays |->
                                IF r \in live THEN PublishOkTimeout ELSE -1],
              !.okListeners = live,
              !.sock = [r \in Relays |-> [g \in SocketIds |->
                          IF r \in live /\ g = S.conn[r].ws
                          THEN [S.sock[r][g] EXCEPT !.frame = "sent"]
                          ELSE S.sock[r][g]]],
              !.window = S.timeoutMs,
              !.sendTimer = S.timeoutMs,
              !.sendPc = "publish"]
  IN PublishSettled(T)

\* RelayPool.connect: Promise.race settles with the first connectToRelay
\* promise that settles; send continues when it still waits for connect(),
\* and receive (sendPc = "none": the pool is receive's) subscribes or closes
\* its handle
ConnectSettled(S, ok) ==
  IF S.connectResult # "pending" THEN S
  ELSE LET T == [S EXCEPT !.connectResult = IF ok THEN "resolved" ELSE "rejected"]
       IN IF T.sendPc = "connect"
          THEN IF ok THEN Publish(T) ELSE SendSettle(T, FALSE)
          ELSE IF T.sendPc = "none" /\ T.recvPc = "connecting"
          THEN IF ok THEN Subscribe([T EXCEPT !.recvPc = "subscribed"])
               ELSE CloseHandle([T EXCEPT !.recvPc = "failed"])
          ELSE T

\* connectToRelay after its await: the wait for "open" of socket g settles
OpenWaitSettled(S, r, g, ok) ==
  IF S.sock[r][g].wait # "pending" THEN S
  ELSE LET T == [S EXCEPT
                   !.sock[r][g].wait = IF ok THEN "resolved" ELSE "rejected",
                   !.sock[r][g].openDeadline = -1,
                   !.conn[r].state = IF ok THEN @ ELSE "error"]
       IN IF g = 1 THEN ConnectSettled(T, ok) ELSE T

\* RelayPool.scheduleReconnect
ScheduleReconnect(S, r) ==
  IF S.conn[r].attempts >= MaxReconnectAttempts THEN S
  ELSE LET a == S.conn[r].attempts + 1
       IN [S EXCEPT !.conn[r].attempts = a,
                    !.rtimer[r] = Min(BaseReconnectDelay * 2^(a - 1),
                                      MaxReconnectDelay)]

\* connectToRelay up to its await
ConnectToRelay(S, r) ==
  IF S.conn[r].state \in {"connected", "connecting"} THEN S
  ELSE LET g == SocketCount(S, r) + 1
       IN [S EXCEPT
             !.conn[r].state = "connecting",
             !.conn[r].ws = g,
             !.sock[r][g] = [st |-> "connecting", wait |-> "pending",
                             openDeadline |-> ConnectOpenTimeout,
                             frame |-> "none", sub |-> "none"],
             !.openedAfterDone = @ \/ S.sendPc = "done"]

\* the "close" handler of socket g, and disconnect's once("close") listener
OnClose(S, r, g) ==
  ScheduleReconnect(
    [S EXCEPT !.sock[r][g].st = "closed",
              !.conn[r].state = "disconnected",
              !.conn[r].ws = 0,
              !.discWait = @ \ {<<r, g>>}], r)

\* disconnect's Promise.allSettled resolves when every "close" has come
CloseWaitSettled(S) ==
  IF (S.sendPc = "disconnect" \/ S.disconnecting) /\ S.discWait = {}
  THEN DisconnectDone(S) ELSE S

\* the "error" handler of socket g
OnError(S, r, g) ==
  ScheduleReconnect(
    [S EXCEPT !.sock[r][g].st = "errored",
              !.conn[r].state = "error"], r)

---------------------------------------------------------------------------
(* send() and its RelayPool: the callbacks *)

\* send: createRelayPool(config), then relayPool.connect() under withTimeout
SendConnect ==
  /\ sendPc = "start"
  /\ LET S0 == [SendState EXCEPT !.connectResult = "pending",
                                 !.sendTimer = timeoutMs,
                                 !.sendPc = "connect"]
         S1 == ConnectToRelay(S0, "r1")
     IN Becomes(ConnectToRelay(S1, "r2"))

\* send(opts): the validation, and with valid arguments the steps up to the
\* await of connect()
SendCall ==
  /\ validation = "none"
  /\ validation' = SendValidation(sendArgs)
  /\ UNCHANGED <<sendArgs, query, powOpt, config, signedEvent>>
  /\ IF SendValidation(sendArgs) = "ok" THEN SendConnect
     ELSE UNCHANGED sendVars

\* socket g of relay r emits "open"
SocketOpen(r, g) ==
  /\ sock[r][g].st = "connecting"
  /\ LET S1 == [SendState EXCEPT !.sock[r][g].st = "open",
                                 !.conn[r].state = "connected",
                                 !.conn[r].attempts = 0]
     IN Becomes(OpenWaitSettled(ResubscribeToRelay(S1, r, g), r, g, TRUE))

\* socket g of relay r emits "error", and with closeNow "close" right after
\* it (a failed or aborted handshake), before any promise continuation runs
SocketError(r, g, closeNow) ==
  /\ \/ sock[r][g].st \in {"connecting", "open"}
     \/ sock[r][g].st = "closing" /\ sock[r][g].wait = "pending"
  /\ LET S1 == OnError(SendState, r, g)
         S2 == IF closeNow THEN OnClose(S1, r, g) ELSE S1
         S3 == OpenWaitSettled(S2, r, g, FALSE)
     IN Becomes(CloseWaitSettled(S3))

\* socket g of relay r emits "close"
SocketClose(r, g) ==
  /\ sock[r][g].st \in {"open", "errored", "closing"}
  /\ Becomes(CloseWaitSettled(OnClose(SendState, r, g)))

\* handleRelayMessage: the message types it has a case for
KnownKinds == {"EVENT", "EOSE", "OK", "NOTICE", "CLOSED"}

\* the inbound frames tried, by what data.toString() holds: text that is not
\* JSON ("garbage"), JSON that is not iterable ("null"), an empty array
\* ("[]"), an array whose first element is no known type ("AUTH"), and an
\* array of each known type
FrameKinds == KnownKinds \cup {"garbage", "null", "[]", "AUTH"}

\* safeJsonParse returns for this frame (it throws otherwise)
Parses(k) == k # "garbage"

\* a handler whose default case emits "notice"
UnknownAsNotice(k) ==
  <<"relay:message">> \o
  (CASE k = "null" -> << >>
     [] k = "EVENT" -> <<"event">>
     [] k = "EOSE" -> <<"eose">>
     [] k = "OK" -> <<"ok">>
     [] k = "NOTICE" -> <<"notice">>
     [] k = "CLOSED" -> <<"closed">>
     [] OTHER -> <<"notice">>)

\* handleRelayMessage: what it emits for a parsed message, in order.  The
\* destructuring of a message that is not iterable throws after the first emit
HandleRelayMessage(k) ==
  <<"relay:message">> \o
  (CASE k = "null" -> << >>
     [] k = "EVENT" -> <<"event">>
     [] k = "EOSE" -> <<"eose">>
     [] k = "OK" -> <<"ok">>
     [] k = "NOTICE" -> <<"notice">>
     [] k = "CLOSED" -> <<"closed">>
     [] OTHER -> << >>)

\* the "message" handler of socket g of relay r: parse, then
\* handleRelayMessage; whatever either throws is caught and logged
OnMessage(S, r, g, k) ==
  LET emitted == IF Parses(k) THEN HandleRelayMessage(k) ELSE << >>
  IN [S EXCEPT !.frameLog =
        [kind |-> k, emitted |-> emitted,
         afterDrop |-> <<r, g>> \in @.dropped,
         dropped |-> IF k \in KnownKinds THEN @.dropped
                     ELSE @.dropped \cup {<<r, g>>}]]

\* socket g of relay r emits "message" with a frame of kind k (an OK frame
\* here is for another event id than the one publish() waits for)
RelayFrame(r, g, k) ==
  /\ sock[r][g].st \in {"open", "closing"}
  /\ Becomes(OnMessage(SendState, r, g, k))

\* a result that ignores the OK frame's accepted field
OkAlwaysTrue(accepted) == "true"

\* publish: the listener's resolve(accepted), stored by results.set(url, ...)
OkResult(accepted) == IF accepted THEN "true" ELSE "false"

\* relay r answers the EVENT it received on socket g with an OK frame for the
\* event's id: the listener publish() registered for r, if still there,
\* removes itself and resolves
RelayOk(r, g, accepted) ==
  /\ sock[r][g].frame = "sent"
  /\ sock[r][g].st \in {"open", "closing"}
  /\ LET S1 == [OnMessage(SendState, r, g, "OK") EXCEPT
                  !.sock[r][g].frame = "answered",
                  !.okListeners = @ \ {r},
                  !.okFrames = @ \cup {[relay |-> r, accepted |-> accepted,
                                        inTime |-> window > 0,
                                        awaited |-> okDeadline[r] >= 0]}]
         S2 == IF pub[r] = "waiting"
               THEN [S1 EXCEPT !.pub[r] = OkResult(accepted),
                               !.okDeadline[r] = -1]
               ELSE S1
     IN Becomes(PublishSettled(S2))

\* publish: the timeout of the wait for relay r's OK fires
OkTimeout(r) ==
  /\ pub[r] = "waiting"
  /\ okDeadline[r] = 0
  /\ Becomes(PublishSettled([SendState EXCEPT !.pub[r] = "false",
                                               !.okDeadline[r] = -1]))

\* send: the timeout around connect() or publish() fires
SendTimeout ==
  /\ sendPc \in {"connect", "publish"}
  /\ sendTimer = 0
  /\ Becomes(SendSettle(SendState, FALSE))

\* connectToRelay: the timeout of the wait for "open" fires
OpenTimeout(r, g) ==
  /\ sock[r][g].wait = "pending"
  /\ sock[r][g].openDeadline = 0
  /\ Becomes(OpenWaitSettled(SendState, r, g, FALSE))

\* the reconnect timer of relay r could fire within the sockets modelled
CanReconnect(r) ==
  \/ conn[r].state \in {"connected", "connecting"}
  \/ /\ SocketCount(SendState, r) < MaxSocketsPerRelay
     /\ SocketCount(SendState, "r1") + SocketCount(SendState, "r2") < MaxSockets

\* scheduleReconnect: the timer of relay r fires
ReconnectFire(r) ==
  /\ rtimer[r] = 0
  /\ CanReconnect(r)
  /\ Becomes(ConnectToRelay([SendState EXCEPT !.rtimer[r] = -1], r))

\* some timer is due
TimerDue ==
  \/ sendPc \in {"connect", "publish"} /\ sendTimer = 0
  \/ \E r \in Relays :
       \/ pub[r] = "waiting" /\ okDeadline[r] = 0
       \/ rtimer[r] = 0 /\ CanReconnect(r)
       \/ \E g \in SocketIds : sock[r][g].wait = "pending" /\ sock[r][g].openDeadline = 0

\* some timer is set, or timeoutMs has not passed since the EVENT was sent
TimerPending ==
  \/ sendTimer > 0
  \/ window > 0
  \/ \E r \in Relays :
       \/ okDeadline[r] > 0
       \/ rtimer[r] > 0
       \/ \E g \in SocketIds : sock[r][g].openDeadline > 0

\* the time left of a timer after a second
Later(t) == IF t > 0 THEN t - 1 ELSE t

\* a second passes with no timer due
Tick ==
  /\ TimerPending
  /\ ~TimerDue
  /\ Becomes([SendState EXCEPT
       !.sendTimer = Later(@),
       !.window = Later(@),
       !.okDeadline = [r \in Relays |-> Later(okDeadline[r])],
       !.rtimer = [r \in Relays |-> Later(rtimer[r])],
       !.sock = [r \in Relays |-> [g \in SocketIds |->
                   [sock[r][g] EXCEPT !.openDeadline = Later(@)]]]])

\* send(opts) is called: the pool is not yet created
SendInit ==
  /\ timeoutMs \in {IF t = 0 THEN DefaultSendTimeout ELSE t : t \in SendTimeouts}
  /\ conn = [r \in Relays |-> NoConnection]
  /\ sock = [r \in Relays |-> [g \in SocketIds |-> NoSocket]]
  /\ rtimer = [r \in Relays |-> -1]
  /\ connectResult = "none"
  /\ sendPc = "start"
  /\ sendOutcome = "none"
  /\ sendTimer = -1
  /\ pub = [u \in Urls |-> "none"]
  /\ okDeadline = [r \in Relays |-> -1]
  /\ discWait = {}
  /\ window = -1
  /\ okFrames = {}
  /\ openedAfterDone = FALSE
  /\ subscriptions = NoSubscription
  /\ disconnecting = FALSE
  /\ subLog = NewSubLog
  /\ targets \in SendTargets
  /\ okListeners = {}
  /\ frameLog = NoFrames

\* no send() in progress
SendIdle == SendInit /\ timeoutMs = DefaultSendTimeout /\ targets = Relays

\* the user calls close() on the handle receive() returned
HandleCloseOnPool ==
  /\ sendPc = "none"
  /\ ~handleClosed
  /\ Becomes(CloseWaitSettled(CloseHandle(SendState)))

\* a user of the pool calls unsubscribe(subscriptionId) (all) or
\* unsubscribe(subscriptionId, urls)
PoolUnsubscribe(all, urls) ==
  /\ sendPc = "none"
  /\ subscriptions.has
  /\ Becomes(Unsubscribe(SendState, all, urls))

\* the state is S
Is(S) ==
  /\ timeoutMs = S.timeoutMs
  /\ conn = S.conn
  /\ sock = S.sock
  /\ rtimer = S.rtimer
  /\ connectResult = S.connectResult
  /\ sendPc = S.sendPc
  /\ sendOutcome = S.sendOutcome
  /\ sendTimer = S.sendTimer
  /\ pub = S.pub
  /\ okDeadline = S.okDeadline
  /\ discWait = S.discWait
  /\ window = S.window
  /\ okFrames = S.okFrames
  /\ openedAfterDone = S.openedAfterDone
  /\ subscriptions = S.subscriptions
  /\ disconnecting = S.disconnecting
  /\ subLog = S.subLog
  /\ targets = S.targets
  /\ okListeners = S.okListeners
  /\ recvPc = S.recvPc
  /\ handleClosed = S.handleClosed
  /\ frameLog = S.frameLog

\* createRelayPool(config) in receive(): no send() uses this pool
PoolNew ==
  [timeoutMs |-> DefaultSendTimeout,
   conn |-> [r \in Relays |-> NoConnection],
   sock |-> [r \in Relays |-> [g \in SocketIds |-> NoSocket]],
   rtimer |-> [r \in Relays |-> -1],
   connectResult |-> "none", sendPc |-> "none", sendOutcome |-> "none",
   sendTimer |-> -1, pub |-> [u \in Urls |-> "none"],
   okDeadline |-> [r \in Relays |-> -1], discWait |-> {}, window |-> -1,
   okFrames |-> {}, openedAfterDone |-> FALSE,
   subscriptions |-> NoSubscription, disconnecting |-> FALSE,
   subLog |-> NewSubLog, targets |-> Relays, okListeners |-> {},
   recvPc |-> "connecting", handleClosed |-> FALSE, frameLog |-> NoFrames]

\* receive(opts) has returned its handle: relayPool.connect() has been called
\* and waits for the first connectToRelay promise
SubInit ==
  Is(ConnectToRelay(ConnectToRelay(
       [PoolNew EXCEPT !.connectResult = "pending"], "r1"), "r2"))

---------------------------------------------------------------------------
(* Proof-of-work mining *)

\* the largest difficulty tried
MaxBits == 3

\* the largest thread count tried
MaxThreads == 3

\* the nonces a mining loop tries in the model
MaxNonce == 40

WorkerIds == 1..MaxThreads

\* a tag: its name (tag[0]) and, for a nonce tag, its nonce and declared bits
Tag(name, nonce, bits) == [name |-> name, nonce |-> nonce, bits |-> bits]

NonceTag(nonce, bits) == Tag("nonce", nonce, bits)

\* the tag lists of the templates mined: send's p and d tags, alone or with a
\* nonce tag of an earlier mining
Templates ==
  {<<Tag("p", 0, 0), Tag("d", 0, 0)>>,
   <<Tag("p", 0, 0), Tag("d", 0, 0), NonceTag(5, 1)>>,
   <<NonceTag(2, 2), Tag("p", 0, 0)>>}

\* a number for a tag, as its serialization differs from tag to tag
TagCode(t) ==
  IF t.name = "p" THEN 3
  ELSE IF t.name = "d" THEN 11
  ELSE 7 + 13 * t.nonce + 5 * t.bits

RECURSIVE HashFrom(_, _)
HashFrom(h, tags) ==
  IF tags = << >> THEN h
  ELSE HashFrom((h * 37 + TagCode(Head(tags)) * 29 + 101) % 256, Tail(tags))

\* getEventHash: a digest of the serialized event, here of one byte, as its
\* two hex digits
EventHash(tags) ==
  LET h == HashFrom(89, tags) IN <<h \div 16, h % 16>>

\* the bits of a digest
HashWidth == 4 * Len(EventHash(<< >>))

\* the difficulties tried: invalid, none, attainable, and one more bit than
\* a digest has
BitsTried == (-1..MaxBits) \cup {HashWidth + 1}

RECURSIVE CountFrom(_, _)
CountFrom(hex, i) ==
  IF i > Len(hex) THEN 0
  ELSE IF hex[i] = 0 THEN 4 + CountFrom(hex, i + 1)
  ELSE (IF hex[i] < 8 THEN 1 ELSE 0) + (IF hex[i] < 4 THEN 1 ELSE 0)
       + (IF hex[i] < 2 THEN 1 ELSE 0)

countLeadingZeroBits(hex) == CountFrom(hex, 1)

validatePowDifficulty(eventId, bits) ==
  IF bits <= 0 THEN TRUE ELSE countLeadingZeroBits(eventId) >= bits

\* the tags of eventWithNonce: [...evt.tags, ["nonce", nonce, bits]]
WithNonce(tags, nonce, bits) == Append(tags, NonceTag(nonce, bits))

\* mineSingleThreaded: the nonce its loop returns with, MaxNonce + 1 when
\* none up to MaxNonce gives the difficulty
RECURSIVE MineLoop(_, _, _)
MineLoop(tags, bits, nonce) ==
  IF nonce > MaxNonce THEN nonce
  ELSE IF validatePowDifficulty(EventHash(WithNonce(tags, nonce, bits)), bits)
  THEN nonce
  ELSE MineLoop(tags, bits, nonce + 1)

\* hasValidPow(evt, bits): id is evt.id, << >> when evt has none.  The tag
\* found is the first nonce tag of evt.tags; a tag's bits field stands for
\* parseInt(tag[2], 10)
hasValidPow(tags, id, bits) ==
  IF bits <= 0 THEN TRUE
  ELSE LET at == {k \in 1..Len(tags) : tags[k].name = "nonce"}
       IN IF at = {} THEN FALSE
          ELSE LET nonceTag == tags[CHOOSE k \in at : \A j \in at : k <= j]
               IN IF nonceTag.bits < bits THEN FALSE
                  ELSE IF id # << >> THEN validatePowDifficulty(id, bits)
                  ELSE validatePowDifficulty(EventHash(tags), bits)

NoWorker == [st |-> "off", nonce |-> 0]

\* mineEventPow(evt, bits, threads) up to its return, its throw or its await
MineEventPow(tags, bits, threads) ==
  /\ powPc = "idle"
  /\ powTimer' = IF bits > 0 /\ threads > 1 THEN "armed" ELSE powTimer
  /\ powEvt' = tags
  /\ powBits' = bits
  /\ powThreads' = threads
  /\ IF bits < 0
     THEN /\ powOutcome' = "threw"
          /\ powPc' = "done"
          /\ UNCHANGED <<workers, powResolved, powResult>>
     ELSE IF bits = 0
     THEN /\ powOutcome' = "returned"
          /\ powResult' = tags
          /\ powPc' = "done"
          /\ UNCHANGED <<workers, powResolved>>
     ELSE IF threads < 1
     THEN /\ powOutcome' = "threw"
          /\ powPc' = "done"
          /\ UNCHANGED <<workers, powResolved, powResult>>
     ELSE IF threads = 1
     THEN IF MineLoop(tags, bits, 0) <= MaxNonce
          THEN /\ powOutcome' = "returned"
               /\ powResult' = WithNonce(tags, MineLoop(tags, bits, 0), bits)
               /\ powPc' = "done"
               /\ UNCHANGED <<workers, powResolved>>
          ELSE \* while (true) goes on: no nonce gives the difficulty
               /\ powPc' = "spinning"
               /\ UNCHANGED <<workers, powResolved, powOutcome, powResult>>
     ELSE /\ workers' = [i \in WorkerIds |->
                          IF i <= threads
                          THEN [st |-> "running", nonce |-> i - 1]
                          ELSE NoWorker]
          /\ powPc' = "mining"
          /\ UNCHANGED <<powResolved, powOutcome, powResult>>

\* mineWorker: one turn of the loop of worker i
WorkerStep(i) ==
  /\ workers[i].st = "running"
  /\ workers[i].nonce <= MaxNonce
  /\ IF validatePowDifficulty(EventHash(WithNonce(powEvt, workers[i].nonce, powBits)), powBits)
     THEN workers' = [workers EXCEPT ![i].st = "posted"]
     ELSE workers' = [workers EXCEPT ![i].nonce = @ + powThreads]
  /\ UNCHANGED <<powPc, powEvt, powBits, powThreads, powResolved, powOutcome,
                 powResult, powTimer>>

\* workers.forEach((w) => w.terminate()): a worker stops where it is; what
\* it posted before stays on its way
Terminated(w) ==
  [i \in WorkerIds |-> IF w[i].st = "running" THEN [w[i] EXCEPT !.st = "terminated"]
                       ELSE w[i]]

\* a guard that lets every report settle the call again
NeverResolved == FALSE

\* mineMultiThreaded: the flag the handlers test, "if (!resolved)"
Resolved == powResolved

\* mineMultiThreaded: the "message" handler of worker i, and mineEventPow
\* after its await; resolve clears the timer
WorkerMessage(i) ==
  /\ workers[i].st = "posted"
  /\ IF ~Resolved
     THEN /\ powResolved' = TRUE
          /\ workers' = Terminated([workers EXCEPT ![i].st = "received"])
          /\ powResult' = WithNonce(powEvt, workers[i].nonce, powBits)
          /\ powOutcome' = "returned"
          /\ powPc' = "done"
          /\ powTimer' = "cleared"
     ELSE /\ workers' = [workers EXCEPT ![i].st = "received"]
          /\ UNCHANGED <<powResolved, powResult, powOutcome, powPc, powTimer>>
  /\ UNCHANGED <<powEvt, powBits, powThreads>>

\* worker i dies of an uncaught error; its "error" event is on its way
WorkerCrash(i) ==
  /\ workers[i].st = "running"
  /\ workers' = [workers EXCEPT ![i].st = "crashed"]
  /\ UNCHANGED <<powPc, powEvt, powBits, powThreads, powResolved, powOutcome,
                 powResult, powTimer>>

\* mineMultiThreaded: the "error" handler of worker i; reject leaves the
\* timer armed
WorkerError(i) ==
  /\ workers[i].st = "crashed"
  /\ IF ~Resolved
     THEN /\ powResolved' = TRUE
          /\ workers' = Terminated([workers EXCEPT ![i].st = "reported"])
          /\ powOutcome' = "threw"
          /\ powPc' = "done"
     ELSE /\ workers' = [workers EXCEPT ![i].st = "reported"]
          /\ UNCHANGED <<powResolved, powOutcome, powPc>>
  /\ UNCHANGED <<powEvt, powBits, powThreads, powResult, powTimer>>

\* mineMultiThreaded: the timeout of five minutes fires
MiningTimeout ==
  /\ powTimer = "armed"
  /\ powTimer' = "fired"
  /\ IF ~Resolved
     THEN /\ powResolved' = TRUE
          /\ workers' = Terminated(workers)
          /\ powOutcome' = "threw"
          /\ powPc' = "done"
     ELSE UNCHANGED <<powResolved, workers, powOutcome, powPc>>
  /\ UNCHANGED <<powEvt, powBits, powThreads, powResult>>

\* opts.pow not given
PowAbsent == [kind |-> "absent", n |-> 0]

\* the values tried for opts.pow: absent, false, true, and numbers from a
\* negative one to the largest difficulty
PowOpts ==
  {PowAbsent, [kind |-> "false", n |-> 0], [kind |-> "true", n |-> 0]}
    \cup {[kind |-> "number", n |-> k] : k \in (-1)..MaxBits}

\* the configurations tried: loadConfig keeps powDifficulty >= 0 and
\* powThreads >= 1
Configs == [powDifficulty : 0..MaxBits, powThreads : 1..MaxThreads]

\* a rule that falls back to the configured difficulty when opts.pow is absent
PowFromConfigByDefault(opt, configDifficulty) ==
  IF opt.kind = "false" \/ (opt.kind = "number" /\ opt.n = 0) THEN 0
  ELSE IF opt.kind = "number" THEN Max(0, opt.n)
  ELSE Max(0, configDifficulty)

\* send.determinePowDifficulty
determinePowDifficulty(opt, configDifficulty) ==
  IF opt.kind = "false" \/ (opt.kind = "number" /\ opt.n = 0) THEN 0
  ELSE IF opt.kind = "number" THEN Max(0, opt.n)
  ELSE IF opt.kind = "true" THEN Max(0, configDifficulty)
  ELSE 0

\* send: the tags of the event template it builds, with no response tag
SendTemplate == <<Tag("p", 0, 0), Tag("d", 0, 0)>>

\* send from the template to the await of mineEventPow, or, with no
\* proof-of-work asked for, to the signed event
SendPow ==
  /\ powPc = "idle"
  /\ signedEvent = << >>
  /\ LET bits == determinePowDifficulty(powOpt, config.powDifficulty)
     IN IF bits > 0
        THEN /\ MineEventPow(SendTemplate, bits, config.powThreads)
             /\ UNCHANGED signedEvent
        ELSE /\ signedEvent' = SendTemplate
             /\ UNCHANGED powVars
  /\ UNCHANGED <<sendArgs, validation, query, powOpt, config>>

\* send after mineEventPow has returned: finalizeEvent signs the template
SendSign ==
  /\ powPc = "done"
  /\ powOutcome = "returned"
  /\ signedEvent = << >>
  /\ signedEvent' = powResult
  /\ UNCHANGED <<powVars, sendArgs, validation, query, powOpt, config>>

\* before mineEventPow is called
PowInit ==
  /\ powPc = "idle"
  /\ powEvt = << >>
  /\ powBits = 0
  /\ powThreads = 1
  /\ workers = [i \in WorkerIds |-> NoWorker]
  /\ powResolved = FALSE
  /\ powOutcome = "none"
  /\ powResult = << >>
  /\ powTimer = "none"

---------------------------------------------------------------------------
(* Specifications *)

\* a tracker that exists and is not used: constructed, persistence on
TrackerIdle == TrackerInit /\ persistenceEnabled

\* no hasProcessed call yet
NoQuery == [asked |-> FALSE, id |-> "a", ts |-> 0, answer |-> FALSE]

\* send is called with valid arguments, hasProcessed is not called
CallIdle ==
  /\ sendArgs = [payload |-> "object", target |-> "valid",
                 response |-> "undefined"]
  /\ validation = "none"
  /\ query = NoQuery
  /\ powOpt = PowAbsent
  /\ config = [powDifficulty |-> 0, powThreads |-> 1]
  /\ signedEvent = << >>

TrackerSpecInit == TrackerInit /\ RecvInit /\ SendIdle /\ PowInit /\ CallIdle

TrackerNext ==
  \/ \E d \in BOOLEAN : \E dt \in Elapsed : Initialize(d, dt) /\ UNCHANGED <<recvVars, sendVars, powVars, callVars>>
  \/ \E id \in EventIds : \E ts \in Timestamps(lastProcessed) : MarkProcessed(id, ts) /\ UNCHANGED <<recvVars, sendVars, powVars, callVars>>
  \/ \E c \in CallIds : \E ok \in BOOLEAN : SaveTimestampDone(c, ok) /\ UNCHANGED <<recvVars, sendVars, powVars, callVars>>
  \/ \E c \in CallIds : \E ok \in BOOLEAN : SaveSnapshotDone(c, ok) /\ UNCHANGED <<recvVars, sendVars, powVars, callVars>>
  \/ \E dt \in Elapsed : Clear(dt) /\ UNCHANGED <<recvVars, sendVars, powVars, callVars>>
  \/ \E e \in BOOLEAN : \E dt \in Elapsed : Restart(e, dt) /\ UNCHANGED <<recvVars, sendVars, powVars, callVars>>

SpecTracker == TrackerSpecInit /\ [][TrackerNext]_vars

RecvSpecInit == RecvInit /\ TrackerIdle /\ SendIdle /\ PowInit /\ CallIdle

RecvNext ==
  \/ RecvSubscribed /\ UNCHANGED <<trackerVars, sendVars, powVars, callVars>>
  \/ RecvConnectFailed /\ UNCHANGED <<trackerVars, sendVars, powVars, callVars>>
  \/ HandleClose /\ UNCHANGED <<trackerVars, sendVars, powVars, callVars>>
  \/ \E sub \in SubIds : \E e \in RecvEvents : EventArrives(sub, e) /\ UNCHANGED <<trackerVars, sendVars, powVars, callVars>>
  \/ \E h \in HandlerIds : DecryptDone(h) /\ UNCHANGED <<trackerVars, sendVars, powVars, callVars>>
  \/ \E h \in HandlerIds : \E threw \in BOOLEAN : CallbackDone(h, threw) /\ UNCHANGED <<trackerVars, sendVars, powVars, callVars>>
  \/ \E c \in ConsumerIds : ConsumerNext(c) /\ UNCHANGED <<trackerVars, sendVars, powVars, callVars>>

SpecReceive == RecvSpecInit /\ [][RecvNext]_vars

\* receive() with one consumer of the handle's stream and no close()
SingleConsumerNext ==
  \/ RecvSubscribed /\ UNCHANGED <<trackerVars, sendVars, powVars, callVars>>
  \/ \E sub \in SubIds : \E e \in RecvEvents : EventArrives(sub, e) /\ UNCHANGED <<trackerVars, sendVars, powVars, callVars>>
  \/ \E h \in HandlerIds : DecryptDone(h) /\ UNCHANGED <<trackerVars, sendVars, powVars, callVars>>
  \/ \E h \in HandlerIds : \E threw \in BOOLEAN : CallbackDone(h, threw) /\ UNCHANGED <<trackerVars, sendVars, powVars, callVars>>
  \/ ConsumerNext(1) /\ UNCHANGED <<trackerVars, sendVars, powVars, callVars>>

SpecSingleConsumer == RecvSpecInit /\ [][SingleConsumerNext]_vars

SendSpecInit == SendInit /\ TrackerIdle /\ RecvInit /\ PowInit /\ CallIdle

SendNext ==
  \/ SendConnect /\ UNCHANGED <<trackerVars, recvVars, powVars, callVars>>
  \/ \E r \in Relays : \E g \in SocketIds : SocketOpen(r, g) /\ UNCHANGED <<trackerVars, recvVars, powVars, callVars>>
  \/ \E r \in Relays : \E g \in SocketIds : \E c \in BOOLEAN : SocketError(r, g, c) /\ UNCHANGED <<trackerVars, recvVars, powVars, callVars>>
  \/ \E r \in Relays : \E g \in SocketIds : SocketClose(r, g) /\ UNCHANGED <<trackerVars, recvVars, powVars, callVars>>
  \/ \E r \in Relays : \E g \in SocketIds : \E a \in BOOLEAN : RelayOk(r, g, a) /\ UNCHANGED <<trackerVars, recvVars, powVars, callVars>>
  \/ \E r \in Relays : OkTimeout(r) /\ UNCHANGED <<trackerVars, recvVars, powVars, callVars>>
  \/ SendTimeout /\ UNCHANGED <<trackerVars, recvVars, powVars, callVars>>
  \/ \E r \in Relays : \E g \in SocketIds : OpenTimeout(r, g) /\ UNCHANGED <<trackerVars, recvVars, powVars, callVars>>
  \/ \E r \in Relays : ReconnectFire(r) /\ UNCHANGED <<trackerVars, recvVars, powVars, callVars>>
  \/ Tick /\ UNCHANGED <<trackerVars, recvVars, powVars, callVars>>

SpecSend == SendSpecInit /\ [][SendNext]_vars

\* what timestamp.json can hold when a tracker starts
TsFileContents == (-1)..MaxNow

\* what snapshot.json can hold when a tracker starts: up to one id more than
\* trackLimit, none twice
SnapFileContents ==
  {s \in UNION {[1..n -> EventIds] : n \in 0..(TrackLimit + 1)} :
     \A i, j \in 1..Len(s) : s[i] = s[j] => i = j}

\* new MessageTracker(config), persistence enabled, on a cache directory left
\* by an earlier process
LoadSpecInit ==
  /\ now = StartNow
  /\ lastProcessed = StartNow - OldestMqSeconds
  /\ recentEvents = << >>
  /\ persistenceEnabled = TRUE
  /\ initialized = FALSE
  /\ tsFile \in TsFileContents
  /\ snapFile \in SnapFileContents
  /\ calls = [k \in CallIds |-> NoCall]
  /\ marks = NoMarks
  /\ prevMarks = NoMarks
  /\ trackerLog = NewLog
  /\ RecvInit /\ SendIdle /\ PowInit /\ CallIdle

LoadNext ==
  \/ \E d \in BOOLEAN : \E dt \in Elapsed : Initialize(d, dt) /\ UNCHANGED <<recvVars, sendVars, powVars, callVars>>

SpecLoad == LoadSpecInit /\ [][LoadNext]_vars

\* a memory-only tracker (enablePersistence false) that is asked hasProcessed
\* between its other operations
QuerySpecInit ==
  /\ TrackerInit /\ ~persistenceEnabled
  /\ RecvInit /\ SendIdle /\ PowInit /\ CallIdle

QueryNext ==
  \/ \E d \in BOOLEAN : \E dt \in Elapsed : Initialize(d, dt) /\ UNCHANGED <<recvVars, sendVars, powVars, callVars>>
  \/ \E id \in EventIds : \E ts \in Timestamps(lastProcessed) : MarkProcessed(id, ts) /\ UNCHANGED <<recvVars, sendVars, powVars, callVars>>
  \/ \E dt \in Elapsed : Clear(dt) /\ UNCHANGED <<recvVars, sendVars, powVars, callVars>>
  \/ \E id \in EventIds : \E ts \in Timestamps(lastProcessed) : HasProcessedCall(id, ts) /\ UNCHANGED <<recvVars, sendVars, powVars>>

SpecQuery == QuerySpecInit /\ [][QueryNext]_vars

\* send called once with each combination of arguments
ValidateSpecInit ==
  /\ SendIdle /\ TrackerIdle /\ RecvInit /\ PowInit
  /\ sendArgs \in SendArgs
  /\ validation = "none"
  /\ query = NoQuery
  /\ powOpt = PowAbsent
  /\ config = [powDifficulty |-> 0, powThreads |-> 1]
  /\ signedEvent = << >>

ValidateNext ==
  \/ SendCall /\ UNCHANGED <<trackerVars, recvVars, powVars>>

SpecValidate == ValidateSpecInit /\ [][ValidateNext]_vars

\* the stream, the listener and the histories of SpecReceive
streamVars == <<messageQueue, messageResolvers, consumerPc, yielded, handlers,
                delivered, finished, arrivals, closeLog>>

SubSpecInit == SubInit /\ RecvInit /\ TrackerIdle /\ PowInit /\ CallIdle

SubNext ==
  \/ \E r \in Relays : \E g \in SocketIds : SocketOpen(r, g) /\ UNCHANGED <<trackerVars, streamVars, powVars, callVars>>
  \/ \E r \in Relays : \E g \in SocketIds : \E c \in BOOLEAN : SocketError(r, g, c) /\ UNCHANGED <<trackerVars, streamVars, powVars, callVars>>
  \/ \E r \in Relays : \E g \in SocketIds : SocketClose(r, g) /\ UNCHANGED <<trackerVars, streamVars, powVars, callVars>>
  \/ \E r \in Relays : \E g \in SocketIds : OpenTimeout(r, g) /\ UNCHANGED <<trackerVars, streamVars, powVars, callVars>>
  \/ \E r \in Relays : ReconnectFire(r) /\ UNCHANGED <<trackerVars, streamVars, powVars, callVars>>
  \/ Tick /\ UNCHANGED <<trackerVars, streamVars, powVars, callVars>>
  \/ HandleCloseOnPool /\ UNCHANGED <<trackerVars, streamVars, powVars, callVars>>
  \/ \E all \in BOOLEAN : \E urls \in SUBSET Relays : PoolUnsubscribe(all, urls) /\ UNCHANGED <<trackerVars, streamVars, powVars, callVars>>

SpecSub == SubSpecInit /\ [][SubNext]_vars

\* a send() and the frames its relays deliver, before any timer fires
FrameNext ==
  \/ SendConnect /\ UNCHANGED <<trackerVars, recvVars, powVars, callVars>>
  \/ \E r \in Relays : \E g \in SocketIds : SocketOpen(r, g) /\ UNCHANGED <<trackerVars, recvVars, powVars, callVars>>
  \/ \E r \in Relays : \E g \in SocketIds : \E c \in BOOLEAN : SocketError(r, g, c) /\ UNCHANGED <<trackerVars, recvVars, powVars, callVars>>
  \/ \E r \in Relays : \E g \in SocketIds : SocketClose(r, g) /\ UNCHANGED <<trackerVars, recvVars, powVars, callVars>>
  \/ \E r \in Relays : \E g \in SocketIds : \E k \in FrameKinds : RelayFrame(r, g, k) /\ UNCHANGED <<trackerVars, recvVars, powVars, callVars>>
  \/ \E r \in Relays : \E g \in SocketIds : \E a \in BOOLEAN : RelayOk(r, g, a) /\ UNCHANGED <<trackerVars, recvVars, powVars, callVars>>

SpecFrame == SendSpecInit /\ [][FrameNext]_vars

PowSpecInit == PowInit /\ TrackerIdle /\ RecvInit /\ SendIdle /\ CallIdle

PowNext ==
  \/ \E t \in Templates : \E b \in BitsTried : \E w \in 0..MaxThreads : MineEventPow(t, b, w) /\ UNCHANGED <<trackerVars, recvVars, sendVars, callVars>>
  \/ \E i \in WorkerIds : WorkerStep(i) /\ UNCHANGED <<trackerVars, recvVars, sendVars, callVars>>
  \/ \E i \in WorkerIds : WorkerMessage(i) /\ UNCHANGED <<trackerVars, recvVars, sendVars, callVars>>
  \/ \E i \in WorkerIds : WorkerCrash(i) /\ UNCHANGED <<trackerVars, recvVars, sendVars, callVars>>
  \/ \E i \in WorkerIds : WorkerError(i) /\ UNCHANGED <<trackerVars, recvVars, sendVars, callVars>>
  \/ MiningTimeout /\ UNCHANGED <<trackerVars, recvVars, sendVars, callVars>>

SpecPow == PowSpecInit /\ [][PowNext]_vars

\* send called once with each value of opts.pow under each configuration
SendPowSpecInit ==
  /\ PowInit /\ TrackerIdle /\ RecvInit /\ SendIdle
  /\ sendArgs = [payload |-> "object", target |-> "valid",
                 response |-> "undefined"]
  /\ validation = "none"
  /\ query = NoQuery
  /\ powOpt \in PowOpts
  /\ config \in Configs
  /\ signedEvent = << >>

SendPowNext ==
  \/ SendPow /\ UNCHANGED <<trackerVars, recvVars, sendVars>>
  \/ \E i \in WorkerIds : WorkerStep(i) /\ UNCHANGED <<trackerVars, recvVars, sendVars, callVars>>
  \/ \E i \in WorkerIds : WorkerMessage(i) /\ UNCHANGED <<trackerVars, recvVars, sendVars, callVars>>
  \/ \E i \in WorkerIds : WorkerCrash(i) /\ UNCHANGED <<trackerVars, recvVars, sendVars, callVars>>
  \/ \E i \in WorkerIds : WorkerError(i) /\ UNCHANGED <<trackerVars, recvVars, sendVars, callVars>>
  \/ MiningTimeout /\ UNCHANGED <<trackerVars, recvVars, sendVars, callVars>>
  \/ SendSign /\ UNCHANGED <<trackerVars, recvVars, sendVars>>

SpecSendPow == SendPowSpecInit /\ [][SendPowNext]_vars

---------------------------------------------------------------------------
(* Replay tracker: claims *)

\* C2 (as claimed): tracker boundary.  Once the tracker is initialized, for
\* every event id that is not in recentEvents, hasProcessed(id, lastProcessed)
\* is true and hasProcessed(id, lastProcessed + 1) is false.
C2_TrackerBoundary ==
  initialized =>
    \A id \in EventIds \ Range(recentEvents) :
      /\ HasProcessed(id, lastProcessed)
      /\ ~HasProcessed(id, lastProcessed + 1)

\* the previous tracker persisted (persistence enabled, no write failed, no
\* clear(), calls one after another) fewer than trackLimit events at
\* increasing timestamps inside its lookback window, and this tracker was
\* constructed on the same cacheDir and initialized with persistence working
RestartedAfterCleanMarks ==
  /\ trackerLog.restarts > 0
  /\ initialized
  /\ persistenceEnabled
  /\ ~trackerLog.cleared
  /\ trackerLog.prevClean
  /\ trackerLog.prevCount > 0
  /\ trackerLog.prevCount < TrackLimit

\* a step of some markProcessed call: its start or its resumption after a write
MarkStep ==
  \/ \E id \in EventIds : \E ts \in Timestamps(lastProcessed) : MarkProcessed(id, ts)
  \/ \E c \in CallIds : \E ok \in BOOLEAN : SaveTimestampDone(c, ok)
  \/ \E c \in CallIds : \E ok \in BOOLEAN : SaveSnapshotDone(c, ok)

\* C13: no step of a markProcessed call lowers lastProcessed, and a call
\* markProcessed(id, ts) leaves it at the maximum of its value before and ts,
\* whether ts is below, at or above it.
C13_MarkProcessedMonotone ==
  [][/\ MarkStep => lastProcessed' >= lastProcessed
     /\ \A id \in EventIds : \A ts \in Timestamps(lastProcessed) :
          MarkProcessed(id, ts) => lastProcessed' = Max(lastProcessed, ts)]_vars

\* C13 witness: calls have completed with timestamps out of order, and the
\* watermark has moved up from where initialize() left it
C13_Witness_OutOfOrderMarks ==
  /\ initialized
  /\ trackerLog.restarts = 0
  /\ ~trackerLog.cleared
  /\ trackerLog.completed >= 2
  /\ ~trackerLog.increasing
  /\ lastProcessed > trackerLog.windowStart

\* C14 (as claimed): during the lifetime of one tracker, from its
\* construction on, no step (initialize, markProcessed, clear) lowers
\* lastProcessed.
C14_WatermarkNeverLowered ==
  [][trackerLog'.restarts = trackerLog.restarts =>
       lastProcessed' >= lastProcessed]_vars

\* C14 (amended): during the lifetime of one tracker only initialize() and
\* clear() can lower lastProcessed: initialize() keeps it or sets it to a
\* value not below now - 2 * oldestMqSeconds, clear() sets it to
\* now - oldestMqSeconds, and every other step leaves it at least as high.
C14_WatermarkLoweredOnlyByInitializeOrClear ==
  [][trackerLog'.restarts = trackerLog.restarts =>
       /\ (~initialized /\ initialized') =>
            \/ lastProcessed' = lastProcessed
            \/ lastProcessed' >= now' - OldestMqSeconds * 2
       /\ (~trackerLog.cleared /\ trackerLog'.cleared) =>
            lastProcessed' = now' - OldestMqSeconds
       /\ (initialized = initialized' /\ trackerLog.cleared = trackerLog'.cleared) =>
            lastProcessed' >= lastProcessed]_vars

\* C14 witness: a markProcessed call of this tracker raised lastProcessed to
\* its timestamp, and clear() has since reset it to a lower value.
C14_Witness_ClearLoweredWatermark ==
  /\ trackerLog.cleared
  /\ lastProcessed = now - OldestMqSeconds
  /\ \E id \in EventIds : marks[id] > lastProcessed

\* C15: recentEvents never holds more than trackLimit ids, and the step of a
\* markProcessed call that adds its id leaves recentEvents unchanged when the
\* id is already there, and otherwise puts the id last and keeps, in order,
\* the newest earlier ids that fit, evicting the oldest-inserted ones.
C15_EvictsOldestInserted ==
  [][LET old == recentEvents
         new == recentEvents'
         AddsAndTrims(id) ==
           IF id \in Range(old)
           THEN new = old
           ELSE /\ Len(new) = Min(Len(old) + 1, TrackLimit)
                /\ new[Len(new)] = id
                /\ \A i \in 1..(Len(new) - 1) :
                     new[i] = old[Len(old) - (Len(new) - 1) + i]
     IN /\ Len(new) <= TrackLimit
        /\ \A id \in EventIds : \A ts \in Timestamps(lastProcessed) :
             MarkProcessed(id, ts) =>
               IF AdvancesWatermark(ts) /\ persistenceEnabled
               THEN new = old
               ELSE AddsAndTrims(id)
        /\ \A c \in CallIds :
             /\ (\E ok \in BOOLEAN : SaveTimestampDone(c, ok)) =>
                  AddsAndTrims(calls[c].id)
             /\ (\E ok \in BOOLEAN : SaveSnapshotDone(c, ok)) => new = old]_vars

\* C15 witness: an id marked by this tracker has been evicted from a full
\* recentEvents, and the ids marked after it are still there.
C15_Witness_OldestEvicted ==
  /\ ~trackerLog.cleared
  /\ Len(recentEvents) = TrackLimit
  /\ \E id \in EventIds : marks[id] # -1 /\ id \notin Range(recentEvents)

C17_WriteFailureDisablesPersistence ==
  trackerLog.writeFailed =>
    /\ ~persistenceEnabled
    /\ ~trackerLog.overlapped => \A c \in CallIds : calls[c].pc = "idle"

\* C18: when initialize() cannot create the cache directory it completes
\* with persistenceEnabled false, the watermark at the constructor default
\* (construction time - oldestMqSeconds) and no recent events; from then on,
\* until the tracker is replaced, persistenceEnabled stays false, every
\* markProcessed call returns without suspending at a write with
\* hasProcessed true for its event, and the cache files are not touched.
C18_CacheDirFailureFallsBackToMemory ==
  [][/\ (~initialized /\ initialized' /\ trackerLog'.dirFailed) =>
          /\ ~persistenceEnabled'
          /\ lastProcessed' = now - OldestMqSeconds
          /\ recentEvents' = << >>
     /\ (trackerLog.dirFailed /\ trackerLog'.restarts = trackerLog.restarts) =>
          /\ ~persistenceEnabled'
          /\ tsFile' = tsFile /\ snapFile' = snapFile
          /\ \A c \in CallIds : calls'[c].pc = "idle"
          /\ \A id \in EventIds : \A ts \in Timestamps(lastProcessed) :
               MarkProcessed(id, ts) =>
                 /\ trackerLog'.completed = trackerLog.completed + 1
                 /\ HasProcessed(id, ts)'
                 /\ lastProcessed' = Max(lastProcessed, ts)]_vars

\* C18 witness: the cache directory could not be created, and a later
\* markProcessed call has advanced the watermark in memory while the cache
\* holds nothing.
C18_Witness_MarkedInMemoryOnly ==
  /\ trackerLog.dirFailed /\ trackerLog.restarts = 0
  /\ trackerLog.completed >= 1
  /\ lastProcessed > trackerLog.windowStart
  /\ Len(recentEvents) >= 1
  /\ tsFile = 0 /\ snapFile = << >>

\* C3 (as claimed): replay suppression across restart.  In a tracker
\* restarted after clean marks, hasProcessed(id, ts) is true for every event
\* the previous tracker marked, the last one marked included.
C3_ReplaySuppressedAcrossRestart ==
  RestartedAfterCleanMarks =>
    \A id \in EventIds :
      prevMarks[id] # -1 => HasProcessed(id, prevMarks[id])

\* C4 (as claimed): within one tracker lifetime without clear(), once
\* markProcessed(id, ts) has completed, hasProcessed(id, ts) stays true after
\* any later markProcessed calls, also for an id evicted from recentEvents.
C4_MarkedStaysProcessed ==
  ~trackerLog.cleared =>
    \A id \in EventIds :
      marks[id] # -1 => HasProcessed(id, marks[id])

---------------------------------------------------------------------------
(* Receive pipeline: properties *)

\* the event ids onMessage was invoked for, in order
DeliveredIds == [i \in 1..Len(delivered) |-> EvId(delivered[i].ev)]

\* C1 (as claimed): while the ids delivered fit the tracker's recent-events
\* window, onMessage is invoked at most once per event id, whatever the
\* interleaving of the arrivals, decryptions and callbacks.
C1_AtMostOncePerId ==
  Cardinality(Range(DeliveredIds)) <= TrackLimit =>
    \A i, j \in 1..Len(delivered) : DeliveredIds[i] = DeliveredIds[j] => i = j

\* C5 (as claimed): once onMessage has returned or thrown for an event, the
\* tracker reports the event processed.
C5_MarkedAfterCallback ==
  \A e \in finished : HasProcessed(EvId(e), EvCreatedAt(e))

\* C6: every event onMessage is invoked for arrived under the handle's
\* subscription id, has kind 30072, carries the receiver's pubkey in a p tag,
\* decrypts, and names the receiver as the target of its envelope; an event
\* that fails one of these is being processed by no run of the listener past
\* the decryption and reaches neither onMessage nor the stream.
C6_OnlyValidDelivered ==
  LET ok(m) == /\ m.sub = SubscriptionId
               /\ EvKind(m.ev) = 30072
               /\ EvTagsUs(m.ev)
               /\ EvDecrypts(m.ev)
               /\ EvContent(m.ev) # "wrongTarget"
  IN /\ \A i \in 1..Len(delivered) : ok(delivered[i])
     /\ \A h \in HandlerIds : handlers[h].pc = "callback" => ok(handlers[h])
     /\ \A e \in finished \cup Range(messageQueue) \cup Range(yielded) :
          ok([sub |-> SubscriptionId, ev |-> e])
          /\ \E i \in 1..Len(delivered) : delivered[i].ev = e

\* C6 witness: a message was delivered, and events failing each kind of check
\* arrived and were dropped with no run of the listener left
C6_Witness_DeliveredAndDropped ==
  /\ Len(delivered) = 1
  /\ \A h \in HandlerIds : handlers[h].pc = "idle"
  /\ arrivals.count = 3
  /\ \E a \in arrivals.seen : a.ev = "wrongTarget" /\ a.sub = SubscriptionId
  /\ \E a \in arrivals.seen : a.ev = "good1" /\ a.sub # SubscriptionId

\* C19: a close() call on a handle that is already closed changes nothing of
\* the handle, its queue, its resolvers and its consumers, and makes no
\* relayPool.unsubscribe call, no CLOSE broadcast and no relayPool.disconnect
\* call: however many times close() is called, each of these happened once.
C19_CloseIsIdempotent ==
  [][/\ (handleClosed /\ closeLog'.calls > closeLog.calls) =>
          /\ closeLog' = [closeLog EXCEPT !.calls = @ + 1]
          /\ UNCHANGED <<handleClosed, messageQueue, messageResolvers,
                         consumerPc, yielded, handlers, delivered, finished,
                         arrivals>>
     /\ closeLog'.unsubscribes <= 1
     /\ closeLog'.closeFrames <= 1
     /\ closeLog'.disconnects <= 1
     /\ handleClosed' <=> closeLog'.disconnects = 1]_vars

\* C19 witness: close() has been called on the subscribed handle, which sent
\* CLOSE and disconnected the pool, and then called again.
C19_Witness_ClosedTwice ==
  /\ handleClosed
  /\ closeLog.calls >= 2
  /\ closeLog.unsubscribes = 1 /\ closeLog.closeFrames = 1
  /\ closeLog.disconnects = 1

\* C20: the step that closes the handle ends every consumer that is waiting
\* for the next message; once the handle is closed no consumer is waiting and
\* no resolver is pending; and a consumer that asks for the next message of a
\* closed handle is ended without being given a message.
C20_StreamEndsOnClose ==
  [][/\ (~handleClosed /\ handleClosed') =>
          \A c \in ConsumerIds :
            consumerPc[c] = "waiting" => consumerPc'[c] = "ended"
     /\ handleClosed' =>
          /\ messageResolvers' = << >>
          /\ \A c \in ConsumerIds : consumerPc'[c] # "waiting"
     /\ \A c \in ConsumerIds :
          (handleClosed /\ ConsumerNext(c)) =>
            /\ consumerPc'[c] = "ended"
            /\ yielded' = yielded]_vars

\* C20 witness: close() completed a waiting consumer, and a consumer that
\* was not waiting then asked for the next message: all have ended.
C20_Witness_WaitingAndLaterConsumersEnded ==
  /\ handleClosed
  /\ closeLog.released = 1
  /\ \A c \in ConsumerIds : consumerPc[c] = "ended"

---------------------------------------------------------------------------
(* send() and its RelayPool: properties *)

\* C7 (as claimed): when send() settles, it has returned the event id if some
\* relay answered OK with accepted = true within timeoutMs of the EVENT being
\* sent, and only if some relay answered OK with accepted = true.
C7_SendResolvesIffAccepted ==
  sendPc = "done" =>
    /\ (\E f \in okFrames : f.accepted /\ f.inTime) => sendOutcome = "id"
    /\ sendOutcome = "id" => \E f \in okFrames : f.accepted

\* C8 (as claimed): connect() is resolved once the handshake of one relay has
\* completed, and is rejected only when connecting has failed for every relay.
C8_ConnectFailsOnlyIfAllFail ==
  /\ connectResult = "rejected" => \A r \in Relays : sock[r][1].wait = "rejected"
  /\ (\E r \in Relays : sock[r][1].wait = "resolved") => connectResult = "resolved"

\* C9 (as claimed): once disconnect() has completed, every connection is
\* disconnected and has no socket, no reconnect timer is set, and no socket
\* has been created since.
C9_DisconnectLeavesNothing ==
  sendPc = "done" =>
    /\ \A r \in Relays : /\ conn[r].state = "disconnected"
                         /\ conn[r].ws = 0
                         /\ rtimer[r] = -1
    /\ ~openedAfterDone

C23_BackoffDelayFollowsAttempts ==
  \A r \in Relays :
    rtimer[r] <= Min(BaseReconnectDelay * 2^(SocketCount(SendState, r) - 1),
                     MaxReconnectDelay)

\* C24 (as claimed): while the subscription is active, whenever a relay of
\* its URL set enters Connected the REQ is sent on the socket that opened, and
\* a dropped connection leaves the subscription in place.
C24_ReqSentOnEveryConnect ==
  [][/\ subLog'.unsent = {}
     /\ (subscriptions.has /\ subscriptions' # subscriptions) =>
          \/ handleClosed'
          \/ \E all \in BOOLEAN : \E urls \in SUBSET Relays :
               PoolUnsubscribe(all, urls)]_vars

\* C25 (as claimed): when publish has returned (every target's entry is
\* settled, by an OK, by the 5 s timeout or by a failure), none of the "ok"
\* listeners it registered is left on the pool.
C25_PublishLeavesNoListener ==
  ((\E u \in Urls : pub[u] # "none") /\ (\A u \in Urls : pub[u] # "waiting"))
    => okListeners = {}

\* C26 (as claimed): send throws a validation error, with no socket created
\* and nothing published, exactly when the target is not a valid pubkey, a
\* response is given and is not a valid pubkey, or the payload is missing or
\* cannot be serialized; with every JSON value as payload (0, false, null and
\* "" included) and valid keys it goes on to connect.
C26_SendValidatesExactly ==
  validation # "none" =>
    /\ validation # "ok" <=>
         \/ ~isValidPubkey(sendArgs.target)
         \/ sendArgs.response # "undefined" /\ ~isValidPubkey(sendArgs.response)
         \/ sendArgs.payload \in {"undefined", "cyclic"}
    /\ validation # "ok" =>
         /\ sendPc = "start"
         /\ \A r \in Relays : SocketCount(SendState, r) = 0
         /\ \A u \in Urls : pub[u] = "none"
    /\ validation = "ok" => sendPc = "connect"

\* C27 (as claimed): once send has started its pool, a connection was started
\* to every relay of the list it was given, the ones outside the configured
\* relays included; the EVENT goes to no relay outside the list, and a listed
\* relay that is connected when publish runs is sent it.
C27_PublishesToListedRelays ==
  sendPc # "start" =>
    /\ \A u \in targets : u \in Relays /\ SocketCount(SendState, u) >= 1
    /\ \A r \in Relays \ targets :
         \A g \in SocketIds : sock[r][g].frame = "none"

C29_OnlyTableTransitions ==
  [][\A r \in Relays :
       conn'[r].state # conn[r].state =>
         <<conn[r].state, conn'[r].state>> \in
           {<<"disconnected", "connecting">>, <<"connecting", "connected">>,
            <<"connecting", "error">>, <<"connected", "disconnected">>,
            <<"connected", "error">>, <<"error", "connecting">>}]_vars

\* C30: unsubscribe without URLs sends CLOSE on the open socket of every
\* connected relay of the subscription and removes the subscription;
\* unsubscribe with URLs sends CLOSE to the connected relays listed, to no
\* other, removes the listed URLs and removes the subscription exactly when
\* no URL is left; a REQ is only ever sent to a relay that the subscription
\* still lists, so none follows a removal on a later reconnect.
C30_UnsubscribeClosesAndRemoves ==
  [][/\ \A all \in BOOLEAN : \A urls \in SUBSET Relays :
          PoolUnsubscribe(all, urls) =>
            LET listed == IF all THEN subscriptions.relays ELSE urls
                rest == subscriptions.relays \ listed
                wired(r, g) == /\ conn[r].state = "connected"
                               /\ conn[r].ws = g
                               /\ sock[r][g].st = "open"
            IN /\ \A r \in Relays : \A g \in SocketIds :
                    /\ (r \in listed /\ wired(r, g)) => sock'[r][g].sub = "close"
                    /\ sock'[r][g] # sock[r][g] => r \in listed /\ wired(r, g)
               /\ subscriptions'.has <=> (~all /\ rest # {})
               /\ subscriptions'.has => subscriptions'.relays = rest
     /\ \A r \in Relays : \A g \in SocketIds :
          (sock'[r][g].sub = "req" /\ sock[r][g].sub # "req") =>
             subscriptions'.has /\ r \in subscriptions'.relays]_vars

\* C30 witness: r1 was removed from the subscription with a CLOSE on its
\* socket, r2 is still listed, and r1 has reconnected without getting a REQ
C30_Witness_RemovedRelayReconnected ==
  /\ subscriptions.has
  /\ subscriptions.relays = {"r2"}
  /\ sock["r1"][1].sub = "close"
  /\ sock["r1"][2].st = "open"
  /\ sock["r1"][2].sub = "none"
  /\ conn["r1"].state = "connected"

\* C31: initialize() on a tracker with persistence enabled, when it keeps
\* persistence on, leaves lastProcessed at max(cached, now - 2 * lookback) if
\* timestamp.json holds a positive number, now being the clock at
\* initialize(), and otherwise at the default the constructor set, the
\* constructor's clock minus the lookback.
C31_InitializeLoadsWatermark ==
  [][\A d \in BOOLEAN : \A dt \in {0, 2 * OldestMqSeconds + 1} :
       (Initialize(d, dt) /\ persistenceEnabled /\ persistenceEnabled') =>
          lastProcessed' =
            IF tsFile > 0
            THEN Max(tsFile, now' - 2 * OldestMqSeconds)
            ELSE now - OldestMqSeconds]_vars

\* C31 witness: initialize() found a cached watermark older than twice the
\* lookback and raised it to now - 2 * lookback
C31_Witness_OldCacheFloored ==
  /\ initialized
  /\ persistenceEnabled
  /\ tsFile > 0
  /\ tsFile < now - 2 * OldestMqSeconds
  /\ lastProcessed = now - 2 * OldestMqSeconds

C35_FilterHasSince ==
  subscriptions.has =>
    subscriptions.filters =
      <<[kinds |-> {30072}, p |-> {ConfigPubkey}, since |-> lastProcessed]>>

\* C36 (as claimed): a "message" step with a frame that does not parse or
\* whose kind is unknown leaves the connections (state, ws, reconnect
\* counter), the sockets, the reconnect timers and the subscription table as
\* they were and emits none of event, ok, eose, closed and notice; a frame of
\* a known kind is handled (its event is emitted), also on a socket on which
\* a frame was dropped before.
C36_BadFrameDropped ==
  [][\A r \in Relays : \A g \in SocketIds : \A k \in FrameKinds :
       RelayFrame(r, g, k) =>
         IF k \in KnownKinds
         THEN /\ Len(frameLog'.emitted) = 2
              /\ frameLog'.emitted[2] \in {"event", "ok", "eose", "closed",
                                           "notice"}
         ELSE /\ conn' = conn
              /\ sock' = sock
              /\ rtimer' = rtimer
              /\ subscriptions' = subscriptions
              /\ Range(frameLog'.emitted) \cap
                   {"event", "ok", "eose", "closed", "notice"} = {}]_vars

\* C36 witness: relay r1's OK for the published event resolved publish() on
\* a socket on which a frame had been dropped
C36_Witness_OkHandledAfterDrop ==
  /\ frameLog.kind = "OK"
  /\ frameLog.afterDrop
  /\ frameLog.emitted = <<"relay:message", "ok">>
  /\ pub["r1"] = "true"
  /\ conn["r1"].state = "connected"

\* C37 (as claimed): for every relay URL at most one of its WebSocket objects
\* is connecting or open, and connection.ws is that socket.
C37_OneLiveSocketPerUrl ==
  \A r \in Relays :
    LET live == {g \in SocketIds : sock[r][g].st \in {"connecting", "open"}}
    IN /\ Cardinality(live) <= 1
       /\ live # {} => conn[r].ws \in live

\* C38 (as claimed): once no markProcessed call is waiting for its timestamp
\* write, on a tracker with persistence enabled that was not cleared, whose
\* writes all succeeded and whose watermark advanced since initialize(),
\* timestamp.json holds the in-memory lastProcessed.
C38_TimestampFileIsWatermark ==
  ( /\ initialized
    /\ persistenceEnabled
    /\ ~trackerLog.cleared
    /\ ~trackerLog.writeFailed
    /\ ~trackerLog.dirFailed
    /\ lastProcessed > trackerLog.windowStart
    /\ \A k \in CallIds : calls[k].pc = "idle" )
  => tsFile = lastProcessed

\* C39 (as claimed): with one stream consumer and no close(), the messages
\* handed to the stream so far (yielded, then queued) are the first of the
\* messages onMessage was invoked for, in the order of those invocations.
C39_StreamFollowsOnMessage ==
  LET invoked == [i \in 1..Len(delivered) |-> delivered[i].ev]
      streamed == yielded \o messageQueue
  IN /\ Len(streamed) <= Len(invoked)
     /\ streamed = SubSeq(invoked, 1, Len(streamed))

\* C40 (as claimed): once close() has been called on the handle, no step
\* invokes onMessage: the sequence of onMessage invocations stays as it is.
C40_NoOnMessageAfterClose ==
  [][handleClosed => delivered' = delivered]_vars

\* C21 (as claimed): once close() has been called on the handle, no REQ for
\* the subscription is sent on any socket, and no socket on which the relay
\* got the REQ was left open by close() without a CLOSE.
C21_CloseCancelsOnEveryRelay ==
  handleClosed =>
    /\ ~subLog.reqAfterClose
    /\ subLog.unclosed = {}

---------------------------------------------------------------------------
(* Proof-of-work mining: properties *)

C34_NonceTagIffPowBits ==
  signedEvent # << >> =>
    LET bits == IF powOpt.kind \in {"absent", "false"} THEN 0
                ELSE IF powOpt.kind = "true" THEN config.powDifficulty
                ELSE Max(0, powOpt.n)
    IN (\E k \in 1..Len(signedEvent) : signedEvent[k].name = "nonce")
         <=> bits > 0

\* C34 witness: send was called with pow: true under a configured difficulty
\* above 0 and signed an event that has a nonce tag declaring it
C34_Witness_MinedWithConfiguredBits ==
  /\ powOpt.kind = "true"
  /\ config.powDifficulty > 0
  /\ signedEvent # << >>
  /\ signedEvent[Len(signedEvent)] = NonceTag(signedEvent[Len(signedEvent)].nonce, config.powDifficulty)

\* C10 (as claimed): a successful mineEventPow(t, B, W) with B > 0 and
\* W >= 1 returns tags that hold exactly one nonce tag, which is the last
\* tag and declares B bits, and the hash of the returned template has at
\* least B leading zero bits; also when t already carries a nonce tag.
C10_MinedTemplateHasOneNonce ==
  (powPc = "done" /\ powOutcome = "returned" /\ powBits > 0 /\ powThreads >= 1) =>
    /\ Cardinality({k \in 1..Len(powResult) : powResult[k].name = "nonce"}) = 1
    /\ powResult[Len(powResult)].name = "nonce"
    /\ powResult[Len(powResult)].bits = powBits
    /\ countLeadingZeroBits(EventHash(powResult)) >= powBits

\* the id of the template mineEventPow returned: the hash the miner computed
\* for it, none when the template was returned as it came (bits = 0)
PowResultId == IF powBits > 0 THEN EventHash(powResult) ELSE << >>

\* C11 (as claimed): for every template, B >= 0 and W >= 1, the template a
\* successful mineEventPow(t, B, W) returns passes hasValidPow(., B).
C11_MinedTemplateVerifies ==
  (powPc = "done" /\ powOutcome = "returned" /\ powBits >= 0 /\ powThreads >= 1) =>
    hasValidPow(powResult, PowResultId, powBits)

\* C12 (as claimed): a mining call in progress, with one thread or more, is
\* under a deadline whose timer can fire and end it, and once the call has
\* returned or failed no worker is running.
C12_MiningEndsByDeadline ==
  /\ powPc \notin {"idle", "done"} => ENABLED MiningTimeout
  /\ powPc = "done" => \A i \in WorkerIds : workers[i].st # "running"

===========================================================================
